---------------------------- MODULE Spec2Model ----------------------------
(***************************************************************************)
(* A model of subscrforge/collector: the caching, rate-limited transport   *)
(* (collector/_base/_transport.py), the client that mounts it              *)
(* (collector/_base/client.py), the duration parser (collector/_utils.py), *)
(* the paginated post iteration (collector/fanbox/client.py), the post     *)
(* body and its segments (collector/_base/post.py), prices                 *)
(* (collector/_base/models.py) and the builders of a post's body           *)
(* (collector/fanbox/models.py, collector/fanbox/datamodel.py).            *)
(*                                                                         *)
(* Text is modelled as a sequence of one-character strings, so that the    *)
(* parser below scans it the way the regular expression does.              *)
(***************************************************************************)
EXTENDS Integers, Sequences, FiniteSets, TLC

\* ------------------------------------------------------------------------
\* Bounds of the model (not program constants).
MaxRequests == 2
MaxBurst == 3
MaxCtorRequests == 1
MaxTicks == 2

\* ------------------------------------------------------------------------
\* collector/_utils.py : parse_duration / _parse_duration_pattern

NoneVal == "None"
ValueError == "ValueError"
ValidationError == "ValidationError"
\* The outcome of a parser: a value, or the error it raises.
Ok(v) == [err |-> "none", val |-> v]
Raise(e) == [err |-> e, val |-> 0]

Digits == <<"0", "1", "2", "3", "4", "5", "6", "7", "8", "9">>
IsDigit(c) == \E i \in 1..10 : Digits[i] = c
DigitVal(c) == (CHOOSE i \in 1..10 : Digits[i] = c) - 1
\* [\d\.] of the value group
IsValueChar(c) == IsDigit(c) \/ c = "."
\* \s
IsSpace(c) == c \in {" ", "\t", "\n"}
\* [\s\,] of the separator
IsSepChar(c) == IsSpace(c) \/ c = ","
LowerLetters ==
    {"a", "b", "c", "d", "e", "f", "g", "h", "i", "j", "k", "l", "m",
     "n", "o", "p", "q", "r", "s", "t", "u", "v", "w", "x", "y", "z"}
UpperLetters ==
    {"A", "B", "C", "D", "E", "F", "G", "H", "I", "J", "K", "L", "M",
     "N", "O", "P", "Q", "R", "S", "T", "U", "V", "W", "X", "Y", "Z"}
\* [a-z] under re.IGNORECASE
IsLetter(c) == c \in LowerLetters \cup UpperLetters
UpperToLower ==
    [c \in UpperLetters |->
        CASE c = "A" -> "a" [] c = "B" -> "b" [] c = "C" -> "c" [] c = "D" -> "d"
          [] c = "E" -> "e" [] c = "F" -> "f" [] c = "G" -> "g" [] c = "H" -> "h"
          [] c = "I" -> "i" [] c = "J" -> "j" [] c = "K" -> "k" [] c = "L" -> "l"
          [] c = "M" -> "m" [] c = "N" -> "n" [] c = "O" -> "o" [] c = "P" -> "p"
          [] c = "Q" -> "q" [] c = "R" -> "r" [] c = "S" -> "s" [] c = "T" -> "t"
          [] c = "U" -> "u" [] c = "V" -> "v" [] c = "W" -> "w" [] c = "X" -> "x"
          [] c = "Y" -> "y" [] OTHER -> "z"]
Lower(s) == [i \in 1..Len(s) |-> IF s[i] \in UpperLetters THEN UpperToLower[s[i]] ELSE s[i]]

\* The end (exclusive) of the longest run of characters satisfying the class
\* that starts at position i: a greedy  [...]*  of the pattern.
RECURSIVE RunEnd(_, _, _)
RunEnd(s, i, kind) ==
    IF i > Len(s) THEN i
    ELSE LET c == s[i]
             in == CASE kind = "value" -> IsValueChar(c)
                     [] kind = "space" -> IsSpace(c)
                     [] kind = "unit" -> IsLetter(c)
                     [] OTHER -> IsSepChar(c)
         IN IF in THEN RunEnd(s, i + 1, kind) ELSE i

\* One attempt of the pattern
\*   (?:(?P<value>[\d\.]+)?\s*(?P<unit>[a-z]+)[\s\,]*)
\* at position i. A match is a run of value characters (possibly empty), a
\* run of spaces, and at least one letter; backtracking finds no other one,
\* because a shorter value or a shorter run of spaces is followed by a
\* character that is no letter.
MatchAt(s, i) ==
    LET v == RunEnd(s, i, "value")
        sp == RunEnd(s, v, "space")
        u == RunEnd(s, sp, "unit")
        e == RunEnd(s, u, "sep")
    IN IF u > sp
       THEN [ok |-> TRUE, value |-> SubSeq(s, i, v - 1), unit |-> SubSeq(s, sp, u - 1), end |-> e]
       ELSE [ok |-> FALSE, value |-> <<>>, unit |-> <<>>, end |-> i]

\* pattern.findall(duration): the matches found scanning left to right; a
\* position where the pattern does not match is skipped.
RECURSIVE FindAll(_, _)
FindAll(s, i) ==
    IF i > Len(s) THEN <<>>
    ELSE LET m == MatchAt(s, i)
         IN IF m.ok THEN <<[value |-> m.value, unit |-> m.unit]>> \o FindAll(s, m.end)
            ELSE FindAll(s, i + 1)

\* float(value) accepts digits with at most one "." and at least one digit.
CountDots(v) == Cardinality({i \in 1..Len(v) : v[i] = "."})
CountDigits(v) == Cardinality({i \in 1..Len(v) : IsDigit(v[i])})
IsFloatLiteral(v) == CountDots(v) <= 1 /\ CountDigits(v) >= 1

\* The number of digits after the "." of a float literal.
FracDigits(v) ==
    IF CountDots(v) = 0 THEN 0
    ELSE Len(v) - (CHOOSE i \in 1..Len(v) : v[i] = ".")

\* The digits of a literal read as one integer: float(v) * 10^FracDigits(v).
RECURSIVE DigitsToInt(_, _)
DigitsToInt(v, acc) ==
    IF v = <<>> THEN acc
    ELSE IF Head(v) = "." THEN DigitsToInt(Tail(v), acc)
    ELSE DigitsToInt(Tail(v), 10 * acc + DigitVal(Head(v)))

RECURSIVE Pow10(_)
Pow10(k) == IF k = 0 THEN 1 ELSE 10 * Pow10(k - 1)

\* The units table; re.fullmatch(reg, unit, flags=re.IGNORECASE), first hit.
UnitMultiplier(unit) ==
    LET u == Lower(unit)
    IN CASE u \in {<<"m","o","n","t","h">>, <<"m","o","n","t","h","s">>} -> 2628000
         [] u \in {<<"w">>, <<"w","e","e","k">>, <<"w","e","e","k","s">>} -> 604800
         [] u \in {<<"d">>, <<"d","a","y">>, <<"d","a","y","s">>} -> 86400
         [] u \in {<<"h">>, <<"h","o","u","r">>, <<"h","o","u","r","s">>} -> 3600
         [] u \in {<<"m">>, <<"m","i","n">>, <<"m","i","n","s">>,
                   <<"m","i","n","u","t","e">>, <<"m","i","n","u","t","e","s">>} -> 60
         [] u \in {<<"s">>, <<"s","e","c">>, <<"s","e","c","s">>,
                   <<"s","e","c","o","n","d">>, <<"s","e","c","o","n","d","s">>} -> 1
         [] OTHER -> 0

\* The largest number of fractional digits among the tokens: the sum is kept
\* as an exact integer numerator over 10^MaxFrac(tokens).
RECURSIVE MaxFrac(_)
MaxFrac(tokens) ==
    IF tokens = <<>> THEN 0
    ELSE LET f == FracDigits(Head(tokens).value)
             r == MaxFrac(Tail(tokens))
         IN IF f > r THEN f ELSE r

\* result += base * multiplier over the tokens, scaled by 10^k; a missing
\* value counts as 1 (float(value or 1)).
RECURSIVE SumTokens(_, _)
SumTokens(tokens, k) ==
    IF tokens = <<>> THEN 0
    ELSE LET t == Head(tokens)
             base == IF t.value = <<>> THEN Pow10(k)
                     ELSE DigitsToInt(t.value, 0) * Pow10(k - FracDigits(t.value))
         IN base * UnitMultiplier(t.unit) + SumTokens(Tail(tokens), k)

\* Python's round(): to the nearest integer, a tie to the even one.
RoundHalfEven(num, den) ==
    LET q == num \div den
        r == num % den
    IN IF 2 * r < den THEN q
       ELSE IF 2 * r > den THEN q + 1
       ELSE IF q % 2 = 0 THEN q ELSE q + 1

TokensValid(tokens) ==
    \A i \in 1..Len(tokens) :
        /\ (tokens[i].value = <<>> \/ IsFloatLiteral(tokens[i].value))
        /\ UnitMultiplier(tokens[i].unit) # 0

\* _parse_duration_pattern: ValueError when the pattern is found nowhere, a
\* value is no number or a unit is unknown; else the rounded sum.
ParseDurationPattern(s) ==
    LET tokens == FindAll(s, 1)
    IN IF tokens = <<>> THEN Raise(ValueError)
       ELSE IF ~TokensValid(tokens) THEN Raise(ValueError)
       ELSE LET k == MaxFrac(tokens)
            IN Ok(RoundHalfEven(SumTokens(tokens, k), Pow10(k)))


\* ------------------------------------------------------------------------
\* Rate-limit strings. _transport.py imports parse_rate_limit from
\* collector/_utils.py, which does not define it; it is modelled from the
\* specification: "<count> req/<unit>" gives (max_requests, period_seconds).
IndexOf(s, c) ==
    IF \E i \in 1..Len(s) : s[i] = c
    THEN CHOOSE i \in 1..Len(s) : s[i] = c /\ \A j \in 1..(i - 1) : s[j] # c
    ELSE 0

ParseRateLimit(s) ==
    LET slash == IndexOf(s, "/")
        n == RunEnd(s, 1, "value")
        count == SubSeq(s, 1, n - 1)
        unit == SubSeq(s, slash + 1, Len(s))
    IN IF slash = 0 \/ n = 1 \/ CountDots(count) # 0
          \/ unit = <<>> \/ UnitMultiplier(unit) = 0
          \/ DigitsToInt(count, 0) = 0
       THEN Raise(ValueError)
       ELSE Ok(<<DigitsToInt(count, 0), UnitMultiplier(unit)>>)

\* ------------------------------------------------------------------------
\* State.
VARIABLES
    cache,                 \* ClientTransport argument: [type, b, n, s]
    follow_cache_control,  \* ClientTransport argument
    rate_limit,            \* ClientTransport argument (text)
    tstate,                \* "new", "ready" or the error construction raised
    cache_max_age,         \* ClientTransport._cache_max_age
    force_cache,           \* ClientTransport._force_cache
    max_rate,              \* AsyncLimiter.max_rate
    time_period,           \* AsyncLimiter.time_period (seconds)
    transports,            \* the ClientTransport instances that exist
    limiter,               \* per instance: AsyncLimiter._level (tokens held)
    store,                 \* keys with an entry in the cache store (CACHE_DIR)
    req,                   \* per request: where it is in handle_async_request
    ticks                  \* elapsed leak intervals (time_period / max_rate each)

tvars == <<cache, follow_cache_control, rate_limit, tstate, cache_max_age,
           force_cache, max_rate, time_period, transports, limiter, store,
           req, ticks>>

\* Bounds of the inputs.
MaxTransports == 2
TransportIds == 1..MaxTransports
Urls == {"u1", "u2"}
Schemes == {"http", "https"}

BoolSetting(b) == [type |-> "bool", b |-> b, n |-> 0, s |-> <<>>]
IntSetting(n) == [type |-> "int", b |-> FALSE, n |-> n, s |-> <<>>]
StrSetting(s) == [type |-> "str", b |-> FALSE, n |-> 0, s |-> s]

\* The cache settings construction is run with: every kind of value, settings
\* that resolve to 0, a negative one, and text that does not parse.
CacheSettings ==
    {BoolSetting(TRUE), BoolSetting(FALSE),
     IntSetting(0), IntSetting(60), IntSetting(-1),
     StrSetting(<<"1", "h">>), StrSetting(<<"1", "h", ",", " ", "3", "0", "m">>),
     StrSetting(<<"3", ".", "1", "4", "m">>), StrSetting(<<"5", " ", "s", "e", "c">>),
     StrSetting(<<"0", ".", "4", "s">>), StrSetting(<<"0", "s">>),
     StrSetting(<<"1", "x">>), StrSetting(<<"1", "2">>)}

\* The settings the interleavings are explored under: one of each outcome.
FewCacheSettings ==
    {BoolSetting(TRUE), BoolSetting(FALSE), IntSetting(-1)}

TwoPerSecond == <<"2", " ", "r", "e", "q", "/", "s">>
OnePerSecond == <<"1", " ", "r", "e", "q", "/", "s">>
RateLimits == {TwoPerSecond, OnePerSecond, <<"r", "e", "q">>}

\* parse_duration: an int is returned as it is, a str is parsed.
ParseDuration(c) ==
    IF c.type = "int" THEN Ok(c.n) ELSE ParseDurationPattern(c.s)

\* A slip in the default: an hour instead of a day.
ResolveCacheMaxAgeHour(c) ==
    IF c.type = "bool"
    THEN (IF c.b THEN Ok(3600) ELSE Ok(0))
    ELSE ParseDuration(c)

\* ClientTransport.__init__, lines 24-27: the maximum cache age.
ResolveCacheMaxAge(c) ==
    IF c.type = "bool"
    THEN (IF c.b THEN Ok(86400) ELSE Ok(0))
    ELSE ParseDuration(c)

\* ClientTransport.__init__, line 38.
ResolveForceCache(follow) == ~follow

\* A request before it is sent. tr is the ClientTransport that handles it
\* (0: none does); ext are its extensions; hit, tokens, served and at record
\* what the lookup found, the tokens taken, who answered, and the tick at
\* which it was handed to the underlying transport.
NewRequest ==
    [pc |-> "new", owner |-> "none", scheme |-> "none", tr |-> 0, key |-> NoneVal,
     ext |-> {}, hit |-> FALSE, tokens |-> 0, served |-> "none", at |-> -1]

\* ClientTransport.__init__ for each instance of ts: it resolves the cache
\* age, sets up storage, controller and transport, and builds an
\* AsyncLimiter of the instance's own. A ValueError of either parser leaves
\* no instance.
BuildTransports(ts) ==
    LET age == ResolveCacheMaxAge(cache)
        rl == ParseRateLimit(rate_limit)
    IN IF age.err # "none" \/ rl.err # "none"
       THEN /\ tstate' = (IF age.err # "none" THEN age.err ELSE rl.err)
            /\ UNCHANGED <<cache_max_age, force_cache, max_rate, time_period,
                           transports, limiter>>
       ELSE /\ tstate' = "ready"
            /\ cache_max_age' = age.val
            /\ force_cache' = ResolveForceCache(follow_cache_control)
            /\ max_rate' = rl.val[1]
            /\ time_period' = rl.val[2]
            /\ transports' = transports \cup ts
            /\ limiter' = [t \in TransportIds |-> IF t \in ts THEN 0 ELSE limiter[t]]

\* The constructor called on its own.
ClientTransportInit(t) ==
    /\ t \notin transports
    /\ tstate = "new"
    /\ BuildTransports({t})
    /\ UNCHANGED <<cache, follow_cache_control, rate_limit, store, req, ticks>>

\* A slip in the branch: "if" where the code has "elif".
MarkRequestBoth(ext) ==
    (IF cache_max_age = 0 THEN ext \cup {"cache_disabled"} ELSE ext)
        \cup (IF force_cache THEN {"force_cache"} ELSE {})

\* handle_async_request, lines 43-46: the marks put on the request.
MarkRequest(ext) ==
    IF cache_max_age = 0 THEN ext \cup {"cache_disabled"}
    ELSE IF force_cache THEN ext \cup {"force_cache"}
    ELSE ext

\* Controller._key_generator on the httpcore request of lines 48-59: a
\* fingerprint of method and URL, the same one the cache transport computes.
KeyOf(url) == <<"GET", url>>

\* AsyncFileStorage(ttl=_cache_max_age).retrieve(key): the entry, when one
\* is stored and not older than the ttl; a ttl that is not positive leaves
\* nothing to retrieve.
StorageRetrieve(key) == cache_max_age > 0 /\ key \in store

\* A slip in the condition: the limiter is asked whatever the lookup gave.
NeedsTokenAlways(key) == TRUE

\* Line 62: whether the limiter is to be asked,  not await retrieve(key).
NeedsToken(key) == ~StorageRetrieve(key)

\* A slip in the comparison: one token of the bucket is never given out.
HasCapacityStrict(t) == limiter[t] + 1 < max_rate

\* AsyncLimiter.has_capacity(1): the bucket holds fewer than max_rate.
HasCapacity(t) == limiter[t] + 1 <= max_rate

\* Lines 43-62 of handle_async_request on instance t: mark the request,
\* compute its key and look the key up in the store.
Handled(r0, t, url) ==
    LET key == KeyOf(url)
    IN [r0 EXCEPT !.tr = t,
                  !.ext = MarkRequest(@),
                  !.key = key,
                  !.hit = StorageRetrieve(key),
                  !.pc = IF NeedsToken(key) THEN "acquire" ELSE "delegate"]

\* A request handed to instance t directly. Requests are numbered in the
\* order they arrive.
HandleLookup(r, t, url) ==
    /\ req[r].pc = "new"
    /\ \A q \in 1..(r - 1) : req[q].pc # "new"
    /\ t \in transports
    /\ req' = [req EXCEPT ![r] = Handled([@ EXCEPT !.owner = "caller"], t, url)]
    /\ UNCHANGED <<cache, follow_cache_control, rate_limit, tstate, cache_max_age,
                   force_cache, max_rate, time_period, transports, limiter,
                   store, ticks>>

\* Line 63: await self._limiter.acquire(); it blocks while the bucket is
\* full and then takes one token.
Acquire(r) ==
    /\ req[r].pc = "acquire"
    /\ HasCapacity(req[r].tr)
    /\ limiter' = [limiter EXCEPT ![req[r].tr] = @ + 1]
    /\ req' = [req EXCEPT ![r] = [@ EXCEPT !.tokens = @ + 1, !.pc = "delegate"]]
    /\ UNCHANGED <<cache, follow_cache_control, rate_limit, tstate, cache_max_age,
                   force_cache, max_rate, time_period, transports, store, ticks>>

\* Line 65: the request is handed to the AsyncCacheTransport. A request
\* marked cache_disabled goes to the origin. Otherwise the cache transport
\* looks the same key up again: a stored entry answers the request (always
\* under force_cache; under the server's directives it may instead have to
\* be revalidated at the origin), and a missing one sends it to the origin.
Delegate(r) ==
    /\ req[r].pc = "delegate"
    /\ \E fresh \in BOOLEAN :
         LET fromCache == /\ "cache_disabled" \notin req[r].ext
                          /\ StorageRetrieve(req[r].key)
                          /\ ("force_cache" \in req[r].ext \/ fresh)
         IN req' = [req EXCEPT ![r] =
                      [@ EXCEPT !.at = ticks,
                                !.served = IF fromCache THEN "cache" ELSE "none",
                                !.pc = IF fromCache THEN "done" ELSE "origin"]]
    /\ UNCHANGED <<cache, follow_cache_control, rate_limit, tstate, cache_max_age,
                   force_cache, max_rate, time_period, transports, limiter,
                   store, ticks>>

\* The origin answers. The cache transport stores the response when it is
\* cachable: always under force_cache, never under cache_disabled, and by
\* the server's directives otherwise.
OriginRespond(r) ==
    /\ req[r].pc = "origin"
    /\ \E cachable \in BOOLEAN :
         LET write == /\ req[r].tr # 0
                      /\ "cache_disabled" \notin req[r].ext
                      /\ ("force_cache" \in req[r].ext \/ cachable)
         IN store' = IF write THEN store \cup {req[r].key} ELSE store
    /\ req' = [req EXCEPT ![r] = [@ EXCEPT !.served = "origin", !.pc = "done"]]
    /\ UNCHANGED <<cache, follow_cache_control, rate_limit, tstate, cache_max_age,
                   force_cache, max_rate, time_period, transports, limiter, ticks>>

\* The origin cannot be reached: the transport's error reaches the caller.
OriginFail(r) ==
    /\ req[r].pc = "origin"
    /\ req' = [req EXCEPT ![r] = [@ EXCEPT !.pc = "failed"]]
    /\ UNCHANGED <<cache, follow_cache_control, rate_limit, tstate, cache_max_age,
                   force_cache, max_rate, time_period, transports, limiter,
                   store, ticks>>

\* An entry of the store reaches its ttl and is dropped.
Expire(key) ==
    /\ key \in store
    /\ cache_max_age > 0
    /\ store' = store \ {key}
    /\ UNCHANGED <<cache, follow_cache_control, rate_limit, tstate, cache_max_age,
                   force_cache, max_rate, time_period, transports, limiter,
                   req, ticks>>

\* AsyncLimiter._leak over one leak interval (time_period / max_rate
\* seconds): every bucket loses one token, down to empty.
Tick ==
    /\ ticks < MaxTicks
    /\ tstate = "ready"
    /\ ticks' = ticks + 1
    /\ limiter' = [t \in TransportIds |-> IF limiter[t] > 0 THEN limiter[t] - 1 ELSE 0]
    /\ UNCHANGED <<cache, follow_cache_control, rate_limit, tstate, cache_max_age,
                   force_cache, max_rate, time_period, transports, store, req>>


\* ------------------------------------------------------------------------
\* collector/_base/client.py : Client, NamespacedClient
VARIABLES
    proxy,          \* Client argument: config["proxy"], "none" when absent
    env_proxies,    \* get_environment_proxies(): the patterns it maps
    cstate,         \* "new", "created" or the error __init__ raised
    transport_cfg,  \* config["transport"]: an instance, 0 when absent
    mounts,         \* config["mounts"]: pattern -> instance
    session_attr,   \* Client._session: a session, 0 while the attribute is unset
    user,           \* whether Client.user is set
    subs,           \* per declared sub-client: the session it is bound to, 0 while unset
    conn,           \* per connect() call: where it is
    closed,         \* the sessions that were closed
    access,         \* the latest attribute access on the client and what it gave
    ever_connected  \* whether a connect() call has completed

cvars == <<proxy, env_proxies, cstate, transport_cfg, mounts, session_attr, user,
           subs, conn, closed, access, ever_connected>>

MaxConnects == 2
MaxClientRequests == 3

\* The annotations of the Fanbox client (fanbox/client.py, lines 22-25).
NamespacedClients == {"creator", "post", "plan", "newsletter"}
AttributeNames == NamespacedClients \cup {"_session", "user"}
NotConnectedError == "NotConnectedError"
AttributeError == "AttributeError"

Patterns == <<"all://", "http://", "https://">>
PatternSet == {Patterns[i] : i \in 1..Len(Patterns)}
\* The proxy maps the environment may give: at most MaxTransports patterns.
EnvProxyMaps == {m \in SUBSET PatternSet : Cardinality(m) <= MaxTransports}

\* The instance built for a pattern: the patterns of the map are numbered in
\* the order of the dict comprehension.
MountId(m, pat) ==
    Cardinality({i \in 1..Len(Patterns) :
                    Patterns[i] \in m /\ i <= (CHOOSE j \in 1..Len(Patterns) : Patterns[j] = pat)})

\* Client.__init__, lines 70-87: one ClientTransport for an explicit proxy,
\* else one per pattern of the environment's proxies, else none at all.
ClientInit ==
    /\ cstate = "new"
    /\ IF proxy # "none"
       THEN /\ BuildTransports({1})
            /\ transport_cfg' = (IF tstate' = "ready" THEN 1 ELSE 0)
            /\ mounts' = mounts
       ELSE IF env_proxies # {}
       THEN /\ BuildTransports({MountId(env_proxies, pat) : pat \in env_proxies})
            /\ transport_cfg' = 0
            /\ mounts' = (IF tstate' = "ready"
                          THEN [pat \in env_proxies |-> MountId(env_proxies, pat)]
                          ELSE mounts)
       ELSE /\ UNCHANGED <<tstate, cache_max_age, force_cache, max_rate, time_period,
                           transports, limiter>>
            /\ UNCHANGED <<transport_cfg, mounts>>
    /\ cstate' = (IF tstate' \in {"new", "ready"} THEN "created" ELSE tstate')
    /\ UNCHANGED <<cache, follow_cache_control, rate_limit, store, req, ticks>>
    /\ UNCHANGED <<proxy, env_proxies, session_attr, user, subs, conn, closed,
                   access, ever_connected>>

\* The transport AsyncClient(**config) sends a URL of the scheme through:
\* config["transport"] when given; else the mount of the most specific
\* matching pattern; else the client's default transport (0), which is no
\* ClientTransport.
Route(scheme) ==
    IF transport_cfg # 0 THEN transport_cfg
    ELSE IF (scheme \o "://") \in DOMAIN mounts THEN mounts[scheme \o "://"]
    ELSE IF "all://" \in DOMAIN mounts THEN mounts["all://"]
    ELSE 0

\* session.get(...): the request goes to the routed transport. A
\* ClientTransport handles it (lines 43-62 of handle_async_request); the
\* default transport sends it to the origin as it is.
Sent(r0, scheme, url) ==
    LET t == Route(scheme)
        r1 == [r0 EXCEPT !.scheme = scheme]
    IN IF t = 0
       THEN [r1 EXCEPT !.key = KeyOf(url), !.pc = "origin", !.at = ticks]
       ELSE Handled(r1, t, url)

NewConnect == [pc |-> "idle", s |-> 0, r |-> 0]

\* connect(), lines 120-129 up to the await: a new AsyncClient is created and
\* _retrieve_user sends its request through it.
ConnectStart(c, r) ==
    /\ cstate = "created"
    /\ conn[c].pc = "idle"
    /\ \A d \in 1..(c - 1) : conn[d].pc # "idle"
    /\ req[r].pc = "new"
    /\ \A q \in 1..(r - 1) : req[q].pc # "new"
    /\ conn' = [conn EXCEPT ![c] = [pc |-> "retrieving", s |-> c, r |-> r]]
    /\ req' = [req EXCEPT ![r] = Sent([@ EXCEPT !.owner = "connect"], "https", "u1")]
    /\ UNCHANGED <<cache, follow_cache_control, rate_limit, tstate, cache_max_age,
                   force_cache, max_rate, time_period, transports, limiter,
                   store, ticks>>
    /\ UNCHANGED <<proxy, env_proxies, cstate, transport_cfg, mounts, session_attr,
                   user, subs, closed, access, ever_connected>>

\* NamespacedClient.__init__, lines 172-174: the sub-client takes the
\* session of its base client.
NamespacedClientInit(base_session) == base_session

\* What _retrieve_user raises.
RetrieveFailures == {"NetworkError", "RetrieveUserError", "HTTPStatusError"}

\* A connect() that sets the session before it awaits the user.
SessionAfterConnectEager(c, outcome) == conn[c].s

\* connect(), lines 129-131: self._session after the call; the assignment
\* comes after the await and is not reached when _retrieve_user raises.
SessionAfterConnect(c, outcome) ==
    IF outcome = "user" THEN conn[c].s ELSE session_attr

\* connect(), lines 129-133 after the await. _retrieve_user returns the
\* user, or raises (NetworkError, RetrieveUserError, another HTTP error) and
\* connect() sets nothing. With the user, _session and every declared
\* sub-client are set, with no await in between.
ConnectFinish(c) ==
    /\ conn[c].pc = "retrieving"
    /\ req[conn[c].r].pc \in {"done", "failed"}
    /\ \E outcome \in {"user"} \cup (RetrieveFailures \ {"NetworkError"}) :
         LET result == IF req[conn[c].r].pc = "failed" THEN "NetworkError" ELSE outcome
         IN /\ session_attr' = SessionAfterConnect(c, result)
            /\ IF result = "user"
               THEN /\ user' = TRUE
                    /\ subs' = [n \in NamespacedClients |-> NamespacedClientInit(session_attr')]
                    /\ ever_connected' = TRUE
                    /\ conn' = [conn EXCEPT ![c].pc = "done"]
               ELSE /\ conn' = [conn EXCEPT ![c].pc = result]
                    /\ UNCHANGED <<user, subs, ever_connected>>
    /\ UNCHANGED tvars
    /\ UNCHANGED <<proxy, env_proxies, cstate, transport_cfg, mounts, closed, access>>

\* A slip in the condition: only the session is guarded.
GetAttrSessionOnly(name) ==
    IF name = "_session" THEN NotConnectedError ELSE AttributeError

\* Client.__getattr__, lines 101-104: called for a name that is not set.
GetAttr(name) ==
    IF name = "_session" \/ name \in NamespacedClients
    THEN NotConnectedError
    ELSE AttributeError

\* Reading an attribute of the client: its value when it is set, else
\* what __getattr__ raises.
Lookup(name) ==
    LET isset == CASE name = "_session" -> session_attr # 0
                   [] name = "user" -> user
                   [] OTHER -> subs[name] # 0
    IN IF isset THEN "value" ELSE GetAttr(name)

Access(name) ==
    /\ cstate = "created"
    /\ access' = [name |-> name, result |-> Lookup(name)]
    /\ UNCHANGED tvars
    /\ UNCHANGED <<proxy, env_proxies, cstate, transport_cfg, mounts, session_attr,
                   user, subs, conn, closed, ever_connected>>

\* close(), lines 140-143: it reads self._session and closes it.
Close ==
    /\ cstate = "created"
    /\ access' = [name |-> "close",
                  result |-> IF Lookup("_session") = "value" THEN "closed" ELSE Lookup("_session")]
    /\ closed' = (IF Lookup("_session") = "value" THEN closed \cup {session_attr} ELSE closed)
    /\ UNCHANGED tvars
    /\ UNCHANGED <<proxy, env_proxies, cstate, transport_cfg, mounts, session_attr,
                   user, subs, conn, ever_connected>>

\* A request of a sub-client, self._session.get(...): sent through the
\* session the sub-client is bound to; a closed session refuses it.
ApiSend(n, r, scheme, url) ==
    /\ subs[n] # 0
    /\ req[r].pc = "new"
    /\ \A q \in 1..(r - 1) : req[q].pc # "new"
    /\ req' = [req EXCEPT ![r] =
                 IF subs[n] \in closed
                 THEN [@ EXCEPT !.owner = "api", !.scheme = scheme, !.pc = "failed"]
                 ELSE Sent([@ EXCEPT !.owner = "api"], scheme, url)]
    /\ UNCHANGED <<cache, follow_cache_control, rate_limit, tstate, cache_max_age,
                   force_cache, max_rate, time_period, transports, limiter,
                   store, ticks>>
    /\ UNCHANGED cvars

\* ------------------------------------------------------------------------
\* _FanboxPostClient.iterate_by_creator and _get_posts: the async generator
\* that pages through a creator's posts, as its consumer drives it. A post
\* id is a number here; a listing holds each id once.

VARIABLES
    include_body,   \* the include_body argument
    ipc,            \* where the generator stands
    list_reqs,      \* post.listCreator requests sent so far
    page_no,        \* post.listCreator responses received so far
    result,         \* the body of the last listing response
    tasks,          \* the outcome of self.get for each item of that listing
    yielded,        \* the positions of result.items yielded so far
    out,            \* the post handed to the consumer at the last yield
    ierr            \* the exception the generator has raised

ivars == <<include_body, ipc, list_reqs, page_no, result, tasks, yielded, out, ierr>>

MaxPages == 3
MaxItems == 2

PostIds == 1..MaxItems

\* result["items"] as the server may return it, in the server's order.
Listings ==
    UNION {{s \in [1..n -> PostIds] : \A i, j \in 1..n : i # j => s[i] # s[j]} :
           n \in 0..MaxItems}

ListStatuses == {404, 500}
GetStatuses == {200, 404, 500}

\* _FanboxPostClient.get: a Post, None for a 404, the error raised otherwise.
GetResult(status) ==
    IF status = 200 THEN "post" ELSE IF status = 404 THEN "none" ELSE "error"

Reverse(s) == [k \in 1..Len(s) |-> s[Len(s) + 1 - k]]

ForEachPostReversed(items, ts, body) ==
    IF body
    THEN Reverse(SelectSeq([k \in 1..Len(items) |-> k], LAMBDA k : ts[k] # "none"))
    ELSE Reverse([k \in 1..Len(items) |-> k])

\* The positions of the listing that the for loop of _get_posts yields, in
\* the order it yields them: with include_body the results of gather, which
\* come in the order of the tasks, without those that are None.
ForEachPost(items, ts, body) ==
    IF body
    THEN SelectSeq([k \in 1..Len(items) |-> k], LAMBDA k : ts[k] # "none")
    ELSE [k \in 1..Len(items) |-> k]

GatherReturnsExceptions(ts) == FALSE

\* asyncio.gather(*tasks) raises as soon as one of its tasks has raised ...
GatherRaises(ts) == \E k \in DOMAIN ts : ts[k] = "error"

\* ... and returns once every one of them has returned.
GatherDone(ts) == \A k \in DOMAIN ts : ts[k] # "pending"

NoIteration ==
    /\ include_body = FALSE
    /\ ipc = "created"
    /\ list_reqs = 0
    /\ page_no = 0
    /\ result = [items |-> <<>>, nextUrl |-> "none"]
    /\ tasks = <<>>
    /\ yielded = <<>>
    /\ out = [page |-> 0, pos |-> 0, id |-> 0]
    /\ ierr = "none"

\* result.get("nextUrl") of a listing: "none" when the key is absent or its
\* value is empty, "url" for an HTTP URL, "malformed" for any other string.
NextUrls == {"none", "url", "malformed"}

\* A loop that never breaks.
NextUrlAlways(res) == "url"

\* Lines 251-254: the value the loop goes on with; TypeAdapter(HttpUrl)
\* raises a ValidationError for a string that is no HTTP URL.
NextUrl(res) == res.nextUrl

\* The generator runs on from the for loop of _get_posts over listing res of
\* page pg, of which the positions ys are yielded: to the next yield, or past
\* the loop to the request for the next page, or to its end.
Advance(pg, res, ts, ys) ==
    LET order == ForEachPost(res.items, ts, include_body) IN
    IF Len(ys) < Len(order)
    THEN /\ ipc' = "suspended"
         /\ yielded' = Append(ys, order[Len(ys) + 1])
         /\ out' = [page |-> pg, pos |-> order[Len(ys) + 1],
                    id |-> res.items[order[Len(ys) + 1]]]
         /\ UNCHANGED <<list_reqs, ierr>>
    ELSE IF NextUrl(res) = "url"
    THEN /\ ipc' = "listing"
         /\ list_reqs' = list_reqs + 1
         /\ yielded' = ys
         /\ UNCHANGED <<out, ierr>>
    ELSE IF NextUrl(res) = "malformed"
    THEN /\ ipc' = "failed"
         /\ ierr' = ValidationError
         /\ yielded' = ys
         /\ UNCHANGED <<out, list_reqs>>
    ELSE /\ ipc' = "done"
         /\ yielded' = ys
         /\ UNCHANGED <<out, list_reqs, ierr>>

\* The consumer's first __anext__: the generator runs to the await of the
\* first listing request.
IterStart ==
    /\ ipc = "created"
    /\ ipc' = "listing"
    /\ list_reqs' = list_reqs + 1
    /\ UNCHANGED <<include_body, page_no, result, tasks, yielded, out, ierr>>

\* The listing response arrives. With include_body and items the generator
\* starts one get per item and awaits gather; else it runs on to a yield.
ListRespond(items, more) ==
    /\ ipc = "listing"
    /\ page_no < MaxPages
    /\ more = "url" => page_no + 1 < MaxPages
    /\ page_no' = page_no + 1
    /\ result' = [items |-> items, nextUrl |-> more]
    /\ IF include_body /\ items # <<>>
       THEN /\ tasks' = [k \in 1..Len(items) |-> "pending"]
            /\ ipc' = "gathering"
            /\ yielded' = <<>>
            /\ UNCHANGED <<out, list_reqs, ierr>>
       ELSE /\ tasks' = <<>>
            /\ Advance(page_no + 1, [items |-> items, nextUrl |-> more], <<>>, <<>>)
    /\ UNCHANGED include_body

\* The listing request fails: a 404 becomes ValueError, the rest is raised.
ListFail(status) ==
    /\ ipc = "listing"
    /\ ipc' = "failed"
    /\ ierr' = IF status = 404 THEN ValueError ELSE "HTTPStatusError"
    /\ UNCHANGED <<include_body, list_reqs, page_no, result, tasks, yielded, out>>

\* The response to the get of item k arrives, in any order among the items.
\* gather then raises, returns, or goes on waiting; the gets of a batch that
\* has failed still run to their end.
DetailRespond(k, status) ==
    /\ k \in DOMAIN tasks
    /\ tasks[k] = "pending"
    /\ tasks' = [tasks EXCEPT ![k] = GetResult(status)]
    /\ IF ipc = "gathering" /\ GatherRaises(tasks')
       THEN /\ ipc' = "failed"
            /\ ierr' = "HTTPStatusError"
            /\ UNCHANGED <<list_reqs, yielded, out>>
       ELSE IF ipc = "gathering" /\ GatherDone(tasks')
       THEN Advance(page_no, result, tasks', <<>>)
       ELSE UNCHANGED <<ipc, ierr, list_reqs, yielded, out>>
    /\ UNCHANGED <<include_body, page_no, result>>

\* The consumer's next __anext__ resumes the generator at its yield.
IterResume ==
    /\ ipc = "suspended"
    /\ Advance(page_no, result, tasks, yielded)
    /\ UNCHANGED <<include_body, page_no, result, tasks>>

\* The consumer gives the generator up at a yield (aclose).
IterClose ==
    /\ ipc = "suspended"
    /\ ipc' = "closed"
    /\ UNCHANGED <<include_body, list_reqs, page_no, result, tasks, yielded, out, ierr>>

\* ------------------------------------------------------------------------
\* The calls of the namespaced Fanbox clients that look one entity up or
\* list what belongs to a creator, each from its request to its outcome.

VARIABLES
    calls           \* the calls made on the connected client

avars == <<calls>>

MaxCalls == 2

HTTPStatusError == "HTTPStatusError"
CreatorNotFound == "ValueError: Creator not found."
IdRequired == "ValueError: Either creator_id or user_id must be specified."

\* The per-entity lookups and the calls that need their creator to exist.
Lookups == {"creator.get", "post.get", "newsletter.get"}
ByCreator == {"plan.list_by_creator", "creator.list_plans",
              "post.iterate_by_creator", "creator.iterate_posts"}

\* The ids a call is given: creator.get takes a creator id, a user id or
\* neither; every other call takes the one id it asks for.
CallArgs(op) ==
    IF op = "creator.get" THEN {"creator_id", "user_id", "neither"} ELSE {"id"}

\* The statuses the platform answers with.
Statuses == {200, 302, 404, 500}

\* EventHooks.raise_for_status: httpx raises for every status but 2xx.
RaisesForStatus(status) == ~(status \in 200..299)

LookupOutcomeRaising(status) ==
    IF RaisesForStatus(status) THEN HTTPStatusError ELSE "value"

\* get of the creator, post and newsletter clients: None for a 404, the
\* error for any other status that raises, else the parsed entity.
LookupOutcome(status) ==
    IF RaisesForStatus(status)
    THEN IF status = 404 THEN NoneVal ELSE HTTPStatusError
    ELSE "value"

ByCreatorOutcomeEmpty(status) ==
    IF RaisesForStatus(status)
    THEN IF status = 404 THEN "value" ELSE HTTPStatusError
    ELSE "value"

\* list_by_creator and the listing request of iterate_by_creator: ValueError
\* for a 404, the error for any other status that raises, else the listing.
ByCreatorOutcome(status) ==
    IF RaisesForStatus(status)
    THEN IF status = 404 THEN CreatorNotFound ELSE HTTPStatusError
    ELSE "value"

NewCall == [pc |-> "new", op |-> "none", arg |-> "none", status |-> 0, outcome |-> "none"]

NoApi == calls = <<>>

\* A call is made: it runs to the await of its request, or, for creator.get
\* with neither id, raises before any request.
ApiCall(c, op, arg) ==
    /\ calls[c].pc = "new"
    /\ \A d \in 1..(c - 1) : calls[d].pc # "new"
    /\ calls' = [calls EXCEPT ![c] =
          IF op = "creator.get" /\ arg = "neither"
          THEN [pc |-> "done", op |-> op, arg |-> arg, status |-> 0, outcome |-> IdRequired]
          ELSE [pc |-> "sent", op |-> op, arg |-> arg, status |-> 0, outcome |-> "none"]]

\* The platform answers the request of a call, and the call ends.
ApiRespond(c, status) ==
    /\ calls[c].pc = "sent"
    /\ calls' = [calls EXCEPT ![c] =
          [@ EXCEPT !.pc = "done", !.status = status,
                    !.outcome = IF calls[c].op \in Lookups
                                THEN LookupOutcome(status)
                                ELSE ByCreatorOutcome(status)]]

\* ------------------------------------------------------------------------
\* PostBody (collector/_base/post.py): a list of segments. Lists, segments
\* and the markup nodes of paragraphs are objects on a heap and are named by
\* their place in it, so that two bodies can hold the same segment and a
\* copy can be told from the object it was made of.

VARIABLES
    segs,           \* the segment objects
    nodes,          \* the text of the markup node objects
    lists,          \* the list objects: PostBody instances and plain lists
    last,           \* the last operation, its number, its result, its operands before it
    tr              \* the last copy or view and the object it was taken of

bvars == <<segs, nodes, lists, last, tr>>

MaxSegs == 6
MaxLists == 4
MaxLen == 3
MaxOps == 4

Seg(kind, name, text) == [kind |-> kind, name |-> name, text |-> text]

\* The segments a parsed response has produced: a paragraph with its markup
\* node, an image, a video and a file.
InitialSegs ==
    <<Seg("Paragraph", "", 1), Seg("Image", "a.png", 0),
      Seg("Video", "b.mp4", 0), Seg("File", "c.zip", 0)>>

\* Plain lists of segments a caller may hold.
InitialLists == {<<>>, <<2>>, <<2, 1>>, <<1, 4, 3>>, <<3, 3>>}

ListObj(cls, items) == [cls |-> cls, items |-> items]

\* What an operation is given: None, one segment, or a list object.
NoOperand == [type |-> "None", ref |-> 0]
SegOperand(s) == [type |-> "Segment", ref |-> s]
ListOperand(l) == [type |-> "list", ref |-> l]
Operands ==
    {NoOperand} \cup {SegOperand(s) : s \in DOMAIN segs}
                \cup {ListOperand(l) : l \in DOMAIN lists}

PostBodies == {l \in DOMAIN lists : lists[l].cls = "PostBody"}

\* What a segment and a list hold, down to the text of the markup nodes.
ValueIn(sg, nd, items) ==
    [i \in 1..Len(items) |->
        [kind |-> sg[items[i]].kind, name |-> sg[items[i]].name,
         text |-> IF sg[items[i]].text = 0 THEN 0 ELSE nd[sg[items[i]].text]]]
Value(l) == ValueIn(segs, nodes, lists[l].items)

ItemsOf(x) == IF x.type = "list" THEN lists[x.ref].items ELSE <<>>
ValueOf(x) == IF x.type = "list" THEN Value(x.ref) ELSE <<>>

\* The segments and the markup nodes a list object leads to.
SegsOf(items) == {items[i] : i \in 1..Len(items)}
NodesOf(items) == {segs[s].text : s \in SegsOf(items)} \ {0}
OperandSegs(x) ==
    IF x.type = "Segment" THEN {x.ref} ELSE SegsOf(ItemsOf(x))

\* PostBody.__init__: the items of the new body. For a PostBody the code
\* rebinds the name self and leaves the new body as it is, empty.
ConstructItems(x) ==
    IF x.type = "list" /\ lists[x.ref].cls = "PostBody" THEN <<>>
    ELSE IF x.type = "Segment" THEN <<x.ref>>
    ELSE IF x.type = "list" THEN lists[x.ref].items
    ELSE <<>>

IAddItemsFront(items, x) ==
    IF x.type = "Segment" THEN <<x.ref>> \o items
    ELSE IF x.type = "list" THEN lists[x.ref].items \o items
    ELSE items

\* PostBody.__iadd__: append for a segment, extend for a body or a list.
IAddItems(items, x) ==
    IF x.type = "Segment" THEN Append(items, x.ref)
    ELSE IF x.type = "list" THEN items \o lists[x.ref].items
    ELSE items

\* deepcopy: every segment of the list is copied once, however often it is
\* in the list. Rank(items, i): which of the distinct segments items[i] is,
\* in the order of their first places.
FirstPlace(items, i) == CHOOSE p \in 1..i : items[p] = items[i] /\ \A q \in 1..(p - 1) : items[q] # items[i]
FirstPlaces(items) == {FirstPlace(items, i) : i \in 1..Len(items)}
Rank(items, i) == Cardinality({p \in FirstPlaces(items) : p <= FirstPlace(items, i)})
TextRank(items, i) ==
    Cardinality({p \in FirstPlaces(items) : p <= FirstPlace(items, i) /\ segs[items[p]].text # 0})

CopyRefsShallow(items, base) == items

\* The segment objects of the copy, allocated after the base existing ones.
CopyRefs(items, base) == [i \in 1..Len(items) |-> base + Rank(items, i)]

\* The heap of segments and of nodes after the items are deep-copied.
CopiedSegs(items) ==
    [k \in 1..Cardinality(FirstPlaces(items)) |->
        LET i == CHOOSE p \in FirstPlaces(items) : Rank(items, p) = k
            s == segs[items[i]]
        IN  Seg(s.kind, s.name, IF s.text = 0 THEN 0 ELSE Len(nodes) + TextRank(items, i))]
CopiedNodes(items) ==
    [k \in 1..Cardinality({p \in FirstPlaces(items) : segs[items[p]].text # 0}) |->
        LET i == CHOOSE p \in FirstPlaces(items) :
                     segs[items[p]].text # 0 /\ TextRank(items, p) = k
        IN  nodes[segs[items[i]].text]]

AddReceiverSelf(a, c) == a

\* PostBody.__add__: the body its += is applied to is the copy c of self a.
AddReceiver(a, c) == c

FilterAll(items, kind) == items

\* The comprehension of images, videos and files: the segments of one class.
Filter(items, kind) == SelectSeq(items, LAMBDA s : segs[s].kind = kind)

ViewKinds == {"Image", "Video", "File"}

NoLast ==
    [op |-> "none", a |-> 0, x |-> NoOperand, r |-> 0, kind |-> "none",
     a_items |-> <<>>, a_value |-> <<>>, x_items |-> <<>>, x_value |-> <<>>, nlists |-> 0,
     n |-> 0]
Done(op, a, x, r, kind) ==
    [op |-> op, a |-> a, x |-> x, r |-> r, kind |-> kind,
     a_items |-> IF a = 0 THEN <<>> ELSE lists[a].items,
     a_value |-> IF a = 0 THEN <<>> ELSE Value(a),
     x_items |-> ItemsOf(x), x_value |-> ValueOf(x), nlists |-> Len(lists),
     n |-> last.n + 1]

NoTrack ==
    [kind |-> "none", src |-> 0, dst |-> 0, src_snap |-> <<>>, dst_snap |-> <<>>,
     src_touched |-> FALSE, dst_touched |-> FALSE]

\* What is held of a tracked object: of a copy and its original everything
\* down to the nodes, of a view and its body the list's own items.
Snap(kind, l) == IF kind = "copy" THEN Value(l) ELSE lists[l].items

\* tr after a mutation made through list l, which brings the segments added
\* into it and changes the nodes changed: the tracking ends when the caller
\* joins a copy with its original or reaches them through a third list.
Touch(l, added, changed) ==
    IF tr.kind = "none" THEN tr
    ELSE IF tr.kind = "copy" /\ l = tr.src /\ added \cap SegsOf(lists[tr.dst].items) # {} THEN NoTrack
    ELSE IF tr.kind = "copy" /\ l = tr.dst /\ added \cap SegsOf(lists[tr.src].items) # {} THEN NoTrack
    ELSE IF tr.kind = "copy" /\ l \notin {tr.src, tr.dst}
            /\ changed \cap (NodesOf(lists[tr.src].items) \cup NodesOf(lists[tr.dst].items)) # {}
         THEN NoTrack
    ELSE [tr EXCEPT !.src_touched = @ \/ l = tr.src, !.dst_touched = @ \/ l = tr.dst]

NoBodies ==
    /\ segs = <<>>
    /\ nodes = <<>>
    /\ lists = <<>>
    /\ last = NoLast
    /\ tr = NoTrack

\* PostBody(x): a new body.
Construct(x) ==
    /\ last.n < MaxOps
    /\ Len(lists) < MaxLists
    /\ lists' = Append(lists, ListObj("PostBody", ConstructItems(x)))
    /\ last' = Done("construct", 0, x, Len(lists) + 1, "none")
    /\ UNCHANGED <<segs, nodes, tr>>

\* a += x: a is changed in place and is what the statement binds.
IAdd(a, x) ==
    /\ last.n < MaxOps
    /\ a \in PostBodies
    /\ Len(IAddItems(lists[a].items, x)) <= MaxLen
    /\ lists' = [lists EXCEPT ![a].items = IAddItems(@, x)]
    /\ last' = Done("iadd", a, x, a, "none")
    /\ tr' = Touch(a, OperandSegs(x), {})
    /\ UNCHANGED <<segs, nodes>>

\* a.copy(): deepcopy(self).
Copy(a) ==
    /\ last.n < MaxOps
    /\ a \in PostBodies
    /\ Len(lists) < MaxLists
    /\ Len(segs) + Cardinality(FirstPlaces(lists[a].items)) <= MaxSegs
    /\ LET items == lists[a].items
           refs == CopyRefs(items, Len(segs))
       IN  /\ segs' = segs \o CopiedSegs(items)
           /\ nodes' = nodes \o CopiedNodes(items)
           /\ lists' = Append(lists, ListObj("PostBody", refs))
           /\ last' = Done("copy", a, NoOperand, Len(lists) + 1, "none")
           /\ tr' = [kind |-> "copy", src |-> a, dst |-> Len(lists) + 1,
                     src_snap |-> Value(a),
                     dst_snap |-> ValueIn(segs \o CopiedSegs(items),
                                          nodes \o CopiedNodes(items), refs),
                     src_touched |-> FALSE, dst_touched |-> FALSE]

\* a + x: result = self.copy(); result += x; return result.
Add(a, x) ==
    /\ last.n < MaxOps
    /\ a \in PostBodies
    /\ Len(lists) < MaxLists
    /\ Len(segs) + Cardinality(FirstPlaces(lists[a].items)) <= MaxSegs
    /\ Len(IAddItems(lists[a].items, x)) <= MaxLen
    /\ LET items == lists[a].items
           c == Len(lists) + 1
           copied == Append(lists, ListObj("PostBody", CopyRefs(items, Len(segs))))
           receiver == AddReceiver(a, c)
       IN  /\ segs' = segs \o CopiedSegs(items)
           /\ nodes' = nodes \o CopiedNodes(items)
           /\ lists' = [copied EXCEPT ![receiver].items = IAddItems(@, x)]
           /\ last' = Done("add", a, x, receiver, "none")
           /\ UNCHANGED tr

\* a.images, a.videos, a.files: a new plain list.
View(a, kind) ==
    /\ last.n < MaxOps
    /\ a \in PostBodies
    /\ Len(lists) < MaxLists
    /\ lists' = Append(lists, ListObj("list", Filter(lists[a].items, kind)))
    /\ last' = Done("view", a, NoOperand, Len(lists) + 1, kind)
    /\ tr' = [kind |-> "view", src |-> a, dst |-> Len(lists) + 1,
              src_snap |-> lists[a].items, dst_snap |-> Filter(lists[a].items, kind),
              src_touched |-> FALSE, dst_touched |-> FALSE]
    /\ UNCHANGED <<segs, nodes>>

\* l.pop(): the caller takes the last item off a body or a plain list.
Pop(l) ==
    /\ last.n < MaxOps
    /\ l \in DOMAIN lists
    /\ lists[l].items # <<>>
    /\ lists' = [lists EXCEPT ![l].items = SubSeq(@, 1, Len(@) - 1)]
    /\ last' = Done("pop", l, NoOperand, 0, "none")
    /\ tr' = Touch(l, {}, {})
    /\ UNCHANGED <<segs, nodes>>

\* The caller changes the markup node of the paragraph l[i] in place.
SetText(l, i) ==
    /\ last.n < MaxOps
    /\ l \in DOMAIN lists
    /\ i \in 1..Len(lists[l].items)
    /\ segs[lists[l].items[i]].text # 0
    /\ nodes' = [nodes EXCEPT ![segs[lists[l].items[i]].text] = 1 - @]
    /\ last' = Done("settext", l, NoOperand, 0, "none")
    /\ tr' = Touch(l, {}, {segs[lists[l].items[i]].text})
    /\ UNCHANGED <<segs, lists>>

\* ------------------------------------------------------------------------
\* The segments (collector/_base/post.py): Image and Video are validated on
\* construction against the MIME type that mimetypes.guess_type derives from
\* their display name. A name is a sequence of characters.

VARIABLES
    made,           \* the segments constructed so far
    made_out        \* the last construction: what was asked for and how it ended

svars == <<made, made_out>>

MaxMade == 2

Mime(category, subtype) == [category |-> category, subtype |-> subtype]
NoMime == Mime("none", "none")

\* The display names segments are constructed with.
Names ==
    {<<"a", ".", "p", "n", "g">>,
     <<"a", ".", "P", "N", "G">>,
     <<"b", ".", "m", "p", "4">>,
     <<"c", ".", "z", "i", "p">>,
     <<"r", "e", "a", "d", "m", "e">>,
     <<".", "p", "n", "g">>,
     <<"d", ".", "t", "a", "r", ".", "g", "z">>,
     <<"e", ".", "p", "n", "g", ".", "g", "z">>,
     <<"f", ".", "g", "z">>,
     <<"i", ".">>,
     <<"h", ".", "j", "p", "g", ".", "m", "p", "4">>,
     <<"j", ".", "t", "x", "t">>}

\* posixpath.splitext: the extension starts at the last dot, unless nothing
\* but dots comes before it.
LastDot(s) ==
    IF \E i \in 1..Len(s) : s[i] = "."
    THEN CHOOSE i \in 1..Len(s) : s[i] = "." /\ \A j \in (i + 1)..Len(s) : s[j] # "."
    ELSE 0
SplitExt(s) ==
    LET d == LastDot(s) IN
    IF d = 0 \/ \A i \in 1..(d - 1) : s[i] = "."
    THEN [root |-> s, ext |-> <<>>]
    ELSE [root |-> SubSeq(s, 1, d - 1), ext |-> SubSeq(s, d, Len(s))]

\* mimetypes.types_map, as far as the names above reach into it.
TypesMap(ext) ==
    CASE ext = <<".", "p", "n", "g">> -> Mime("image", "png")
      [] ext = <<".", "j", "p", "g">> -> Mime("image", "jpeg")
      [] ext = <<".", "m", "p", "4">> -> Mime("video", "mp4")
      [] ext = <<".", "z", "i", "p">> -> Mime("application", "zip")
      [] ext = <<".", "t", "x", "t">> -> Mime("text", "plain")
      [] ext = <<".", "t", "a", "r">> -> Mime("application", "x-tar")
      [] OTHER -> NoMime

\* mimetypes.guess_type(name)[0]: an encoding suffix is taken off first, the
\* extension is looked up in lower case.
GuessType(name) ==
    LET p == SplitExt(name)
        q == IF p.ext = <<".", "g", "z">> THEN SplitExt(p.root) ELSE p
    IN  TypesMap(Lower(q.ext))

SegmentKinds == {"Image", "Video", "File"}

\* The mime_type property of each class.
MimeType(kind, name) ==
    IF kind = "Paragraph" THEN Ok(Mime("text", "html"))
    ELSE IF kind = "File"
    THEN Ok(IF GuessType(name) = NoMime THEN Mime("application", "octet-stream")
            ELSE GuessType(name))
    ELSE IF GuessType(name) # NoMime THEN Ok(GuessType(name))
    ELSE [err |-> ValueError, val |-> NoMime]

ValidateMimeTypeLax(kind, name) ==
    kind \in {"Image", "Video"} => MimeType(kind, name).err = "none"

\* _validate_mime_type of Image and of Video, run after the fields are set:
\* TRUE when it returns, FALSE when it (or mime_type) raises ValueError,
\* which pydantic turns into a ValidationError.
ValidateMimeType(kind, name) ==
    /\ kind = "Image" =>
          MimeType(kind, name).err = "none" /\ MimeType(kind, name).val.category = "image"
    /\ kind = "Video" =>
          MimeType(kind, name).err = "none" /\ MimeType(kind, name).val.category = "video"

NoSegments ==
    /\ made = <<>>
    /\ made_out = [kind |-> "none", name |-> <<>>, outcome |-> "none", before |-> 0]

\* Image(name=...), Video(name=...), File(name=...).
NewSegment(kind, name) ==
    /\ Len(made) < MaxMade
    /\ IF ValidateMimeType(kind, name)
       THEN /\ made' = Append(made, [kind |-> kind, name |-> name])
            /\ made_out' = [kind |-> kind, name |-> name, outcome |-> "made",
                            before |-> Len(made)]
       ELSE /\ made' = made
            /\ made_out' = [kind |-> kind, name |-> name, outcome |-> ValidationError,
                            before |-> Len(made)]

\* ------------------------------------------------------------------------
\* Price (collector/_base/models.py): a currency and a Decimal value. A
\* Decimal is held by its value in thousandths, which is exact for every
\* number used here; a currency is a sequence of characters.

VARIABLES
    pa,             \* the Price a caller holds as a
    pb,             \* the Price a caller holds as b
    pres            \* the last operation on them and its result

pvars == <<pa, pb, pres>>

MaxThousandths == 3000

Thousandths == 1000

Price(currency, value) == [currency |-> currency, value |-> value]

\* Field(pattern=r"^[A-Z]{3}$") and Field(decimal_places=2).
CurrencyValid(c) == Len(c) = 3 /\ \A i \in 1..Len(c) : c[i] \in UpperLetters
ValueValid(v) == v % 10 = 0
PriceValid(p) == CurrencyValid(p.currency) /\ ValueValid(p.value)

\* What Price(currency=..., value=...) is called with; the prices are those
\* of them that validate.
PriceArguments ==
    {Price(c, v) : c \in {<<"U", "S", "D">>, <<"J", "P", "Y">>, <<"u", "s", "d">>, <<"U", "S">>},
                   v \in {0, 1000, 1500, 1005}}
Prices == {p \in PriceArguments : PriceValid(p)}

\* The other operand: a Price, or a plain number (int, float or Decimal),
\* whose Decimal(...) is its own value.
PriceOperand(p) == [type |-> "Price", currency |-> p.currency, value |-> p.value]
Number(type, v) == [type |-> type, currency |-> <<>>, value |-> v]
Numbers == {Number("int", 1 * Thousandths), Number("Decimal", 500), Number("float", 125)}

\* Price.__eq__
PriceEq(p, q) ==
    IF p.currency # q.currency THEN [err |-> ValueError, val |-> FALSE]
    ELSE [err |-> "none", val |-> p.value = q.value]

PriceLtOrEqual(p, q) ==
    IF p.currency # q.currency THEN [err |-> ValueError, val |-> FALSE]
    ELSE [err |-> "none", val |-> p.value <= q.value]

\* Price.__lt__
PriceLt(p, q) ==
    IF p.currency # q.currency THEN [err |-> ValueError, val |-> FALSE]
    ELSE [err |-> "none", val |-> p.value < q.value]

NoPrice == Price(<<>>, 0)

\* Price.__add__ (and __radd__, __iadd__, which return self + other):
\* model_construct builds the result without validation.
PriceAdd(p, other) ==
    IF other.type = "Price" /\ p.currency # other.currency
    THEN [err |-> ValueError, val |-> NoPrice]
    ELSE [err |-> "none", val |-> Price(p.currency, p.value + other.value)]

\* Price.__sub__ (and __isub__, which returns self - other).
PriceSub(p, other) ==
    IF other.type = "Price" /\ p.currency # other.currency
    THEN [err |-> ValueError, val |-> NoPrice]
    ELSE [err |-> "none", val |-> Price(p.currency, p.value - other.value)]

\* Price.__rsub__: other - self.
PriceRSub(p, other) ==
    IF other.type = "Price" /\ p.currency # other.currency
    THEN [err |-> ValueError, val |-> NoPrice]
    ELSE [err |-> "none", val |-> Price(p.currency, other.value - p.value)]

Comparisons == {"eq", "lt"}
Arithmetic == {"add", "radd", "sub", "rsub"}
InPlace == {"iadd", "isub"}

ArithResult(op, p, other) ==
    IF op \in {"add", "radd", "iadd"} THEN PriceAdd(p, other)
    ELSE IF op \in {"sub", "isub"} THEN PriceSub(p, other)
    ELSE PriceRSub(p, other)

NoPrices ==
    /\ pa = NoPrice
    /\ pb = NoPrice
    /\ pres = [op |-> "none", self |-> NoPrice, other |-> PriceOperand(NoPrice),
               err |-> "none", bool |-> FALSE, price |-> NoPrice]

\* a == b, a < b, and the same with b on the left.
Compare(op, p, q) ==
    /\ pres' = [op |-> op, self |-> p, other |-> PriceOperand(q),
                err |-> (IF op = "eq" THEN PriceEq(p, q) ELSE PriceLt(p, q)).err,
                bool |-> (IF op = "eq" THEN PriceEq(p, q) ELSE PriceLt(p, q)).val,
                price |-> NoPrice]
    /\ UNCHANGED <<pa, pb>>

\* a + other, other + a, a - other, other - a.
Arith(op, other) ==
    /\ pres' = [op |-> op, self |-> pa, other |-> other,
                err |-> ArithResult(op, pa, other).err, bool |-> FALSE,
                price |-> ArithResult(op, pa, other).val]
    /\ UNCHANGED <<pa, pb>>

\* a += other, a -= other: the name a is bound to the new Price.
ArithInPlace(op, other) ==
    /\ ArithResult(op, pa, other).err = "none" =>
          /\ ArithResult(op, pa, other).val.value <= MaxThousandths
          /\ ArithResult(op, pa, other).val.value >= 0 - MaxThousandths
    /\ pres' = [op |-> op, self |-> pa, other |-> other,
                err |-> ArithResult(op, pa, other).err, bool |-> FALSE,
                price |-> ArithResult(op, pa, other).val]
    /\ pa' = IF ArithResult(op, pa, other).err = "none"
             THEN ArithResult(op, pa, other).val ELSE pa
    /\ UNCHANGED pb

\* ------------------------------------------------------------------------
\* collector/_utils.py : parse_duration called with any argument. The
\* result is kept as the decimal text of the int it returns, so that a
\* number of seconds wider than the integers of the model can be carried.
VARIABLES
    parses      \* the calls made: the argument and the outcome of each

dvars == <<parses>>

MaxParsed == 2

\* str(n) of an int.
RECURSIVE NatToDigits(_)
NatToDigits(n) ==
    IF n < 10 THEN <<Digits[n + 1]>>
    ELSE NatToDigits(n \div 10) \o <<Digits[(n % 10) + 1]>>
IntToDigits(n) == IF n < 0 THEN <<"-">> \o NatToDigits(0 - n) ELSE NatToDigits(n)

IsDigits(v) == v # <<>> /\ \A i \in 1..Len(v) : IsDigit(v[i])

\* The digits of an integer without its leading zeros.
RECURSIVE StripZeros(_)
StripZeros(v) ==
    IF Len(v) > 1 /\ Head(v) = "0" THEN StripZeros(Tail(v)) ELSE v

\* a < b for two integers given by their digits without leading zeros.
DigitsLess(a, b) ==
    \/ Len(a) < Len(b)
    \/ /\ Len(a) = Len(b)
       /\ \E i \in 1..Len(a) :
            /\ DigitVal(a[i]) < DigitVal(b[i])
            /\ \A j \in 1..(i - 1) : a[j] = b[j]

\* n + 1 on the digits of n.
RECURSIVE DigitsInc(_)
DigitsInc(v) ==
    IF v = <<>> THEN <<"1">>
    ELSE LET front == SubSeq(v, 1, Len(v) - 1)
             d == DigitVal(v[Len(v)])
         IN IF d = 9 THEN DigitsInc(front) \o <<"0">>
            ELSE front \o <<Digits[d + 2]>>

\* n - 1 on the digits of an odd n.
DigitsDecOdd(v) ==
    SubSeq(v, 1, Len(v) - 1) \o <<Digits[DigitVal(v[Len(v)])]>>

\* n % 4 from the last two digits of n.
DigitsMod4(v) ==
    LET ones == DigitVal(v[Len(v)])
        tens == IF Len(v) > 1 THEN DigitVal(v[Len(v) - 1]) ELSE 0
    IN (10 * tens + ones) % 4

\* 2^53 and 2^54: a double has a mantissa of 53 bits.
TwoTo53 == <<"9", "0", "0", "7", "1", "9", "9", "2", "5", "4", "7", "4", "0", "9", "9", "2">>
TwoTo54 == <<"1", "8", "0", "1", "4", "3", "9", "8", "5", "0", "9", "4", "8", "1", "9", "8", "4">>

\* float(value) of a literal of digits, for a value below 2^54, as the digits
\* of the double: every integer up to 2^53 is a double; above it the doubles
\* are the even integers, and an odd integer is rounded to the neighbour
\* whose mantissa is even, which is the multiple of 4.
FloatOfDigits(v) ==
    LET n == StripZeros(v)
    IN IF ~DigitsLess(TwoTo53, n) THEN n
       ELSE IF DigitsMod4(n) % 2 = 0 THEN n
       ELSE IF DigitsMod4(DigitsInc(n)) = 0 THEN DigitsInc(n)
       ELSE DigitsDecOdd(n)

\* The literals the integers of the model cannot hold.
MaxNarrowDigits == 9
IsWide(tokens) ==
    /\ Len(tokens) = 1
    /\ IsDigits(tokens[1].value)
    /\ Len(StripZeros(tokens[1].value)) > MaxNarrowDigits

RaiseText(e) == [err |-> e, val |-> <<>>]

\* parse_duration with its result as text. One wide number of seconds is
\* 0 + float(value) * 1, rounded, which is the double itself.
ParseDurationText(c) ==
    IF c.type = "int" THEN Ok(IntToDigits(c.n))
    ELSE LET tokens == FindAll(c.s, 1)
         IN IF IsWide(tokens)
            THEN (IF UnitMultiplier(tokens[1].unit) = 1
                  THEN Ok(FloatOfDigits(tokens[1].value))
                  ELSE RaiseText(ValueError))
            ELSE LET r == ParseDurationPattern(c.s)
                 IN IF r.err = "none" THEN Ok(IntToDigits(r.val)) ELSE RaiseText(r.err)

\* The numbers n of the strings "<n> sec" that are parsed.
SecondsTexts ==
    {<<"0">>, <<"1">>, <<"7">>, <<"1", "0">>, <<"5", "9">>, <<"8", "6", "4", "0", "0">>, <<"4", "2", "9", "4", "9", "6", "7", "2", "9", "6">>,
     <<"9", "0", "0", "7", "1", "9", "9", "2", "5", "4", "7", "4", "0", "9", "9", "1">>, <<"9", "0", "0", "7", "1", "9", "9", "2", "5", "4", "7", "4", "0", "9", "9", "2">>, <<"9", "0", "0", "7", "1", "9", "9", "2", "5", "4", "7", "4", "0", "9", "9", "3">>,
     <<"9", "0", "0", "7", "1", "9", "9", "2", "5", "4", "7", "4", "0", "9", "9", "4">>, <<"9", "0", "0", "7", "1", "9", "9", "2", "5", "4", "7", "4", "0", "9", "9", "5">>}

SecSuffix == <<" ", "s", "e", "c">>

\* Strings of the grammar.
WellFormed ==
    {<<"1", "h">>, <<"1", "h", ",", " ", "3", "0", "m">>, <<"3", ".", "1", "4", "m">>, <<"h">>, <<"1", " ", "d", "a", "y">>, <<"1", "h", "3", "0", "m">>, <<"2", " ", "W", "e", "e", "k", "s">>,
     <<"0", ".", "5", "s">>, <<"1", ".", "5", "s">>, <<"2", ".", "5", "s">>, <<"1", " ", "m", "o", "n", "t", "h", ",", " ", "1", " ", "d">>, <<"9", "0", " ", "M", "I", "N">>}

\* Strings outside the grammar: no unit, a value that is no number, an
\* unknown unit, text between the tokens, nothing at all.
Malformed ==
    {<<"5">>, <<"1", ".", ".", "2", "s">>, <<"1", " ", "p", "a", "r", "s", "e", "c">>, <<"1", "h", " ", "3", "0">>, <<"1", "h", ",", " ", "5", " ", "x">>, <<"1", "0", " ", "$", " ", "s", "e", "c">>,
     <<"-", "5", " ", "s", "e", "c">>, <<>>, <<" ">>, <<"a", "b", "c", " ", "1", "h">>, <<"1", "h", ";", " ", "3", "0", "m">>, <<".", "s">>}

DurationArguments ==
    {IntSetting(n) : n \in {-1, 0, 5, 3600}}
        \cup {StrSetting(n \o SecSuffix) : n \in SecondsTexts}
        \cup {StrSetting(s) : s \in WellFormed \cup Malformed}

NoParses == parses = <<>>

\* One call of parse_duration.
Parse(c) ==
    /\ Len(parses) < MaxParsed
    /\ parses' = Append(parses, [arg |-> c, out |-> ParseDurationText(c)])

\* ------------------------------------------------------------------------
\* collector/fanbox/models.py : the builders of a post's body, the markup
\* they make with lxml.builder.E, and PostBody.render. The older builder of
\* collector/fanbox/datamodel.py is modelled next to them.
VARIABLES
    built,      \* the latest build: its input, its outcome and what it renders
    nbuilt      \* the number of builds made

fvars == <<built, nbuilt>>

MaxBuilt == 2
MaxBlocks == 2
MaxImages == 2

NotImplementedError == "NotImplementedError"

\* An lxml element: its tag, attributes, text, children, and the text that
\* follows it inside its parent.
Node(tag, attrs, txt, kids, tail) ==
    [tag |-> tag, attrs |-> attrs, text |-> txt, kids |-> kids, tail |-> tail]
NoNode == Node("", <<>>, <<>>, <<>>, <<>>)

\* An argument of E.tag(...): a str or an element.
Str(t) == [type |-> "str", text |-> t, node |-> NoNode]
El(n) == [type |-> "element", text |-> <<>>, node |-> n]

\* lxml.builder: a str before the first child is added to the element's
\* text, a str after a child to that child's tail; an element is appended.
RECURSIVE AddArgs(_, _)
AddArgs(node, args) ==
    IF args = <<>> THEN node
    ELSE LET a == Head(args)
             next == IF a.type = "element"
                     THEN [node EXCEPT !.kids = Append(@, a.node)]
                     ELSE IF node.kids = <<>>
                     THEN [node EXCEPT !.text = @ \o a.text]
                     ELSE [node EXCEPT !.kids[Len(node.kids)].tail = @ \o a.text]
         IN AddArgs(next, Tail(args))

E(tag, args, attrs) == AddArgs(Node(tag, attrs, <<>>, <<>>, <<>>), args)

\* The serializer's escapes.
RECURSIVE Escape(_)
Escape(s) ==
    IF s = <<>> THEN <<>>
    ELSE (CASE Head(s) = "&" -> <<"&", "a", "m", "p", ";">>
            [] Head(s) = "<" -> <<"&", "l", "t", ";">>
            [] Head(s) = ">" -> <<"&", "g", "t", ";">>
            [] OTHER -> <<Head(s)>>) \o Escape(Tail(s))

RECURSIVE AttrsTostring(_)
AttrsTostring(attrs) ==
    IF attrs = <<>> THEN <<>>
    ELSE <<" ">> \o Head(attrs)[1] \o <<"=", "\"">> \o Escape(Head(attrs)[2]) \o <<"\"">>
            \o AttrsTostring(Tail(attrs))

\* etree.tostring of an element and its tail; the white space pretty_print
\* puts between elements is left out.
RECURSIVE Tostring(_)
RECURSIVE KidsTostring(_)
Tostring(n) ==
    (IF n.text = <<>> /\ n.kids = <<>>
     THEN <<"<">> \o n.tag \o AttrsTostring(n.attrs) \o <<"/", ">">>
     ELSE <<"<">> \o n.tag \o AttrsTostring(n.attrs) \o <<">">>
            \o Escape(n.text) \o KidsTostring(n.kids)
            \o <<"<", "/">> \o n.tag \o <<">">>)
        \o Escape(n.tail)
KidsTostring(kids) ==
    IF kids = <<>> THEN <<>> ELSE Tostring(Head(kids)) \o KidsTostring(Tail(kids))

\* text[a:b] of Python, for 0 <= a.
Slice(s, a, b) ==
    LET hi == IF b > Len(s) THEN Len(s) ELSE b
    IN IF a >= hi THEN <<>> ELSE SubSeq(s, a + 1, hi)

\* A block of an article. key is the name its list of style spans comes
\* under ("none": the block has no such list); ref is the id an embed, image
\* or file block carries.
Span(type, offset, length) == [type |-> type, offset |-> offset, length |-> length]
Block(type, txt, key, spans, ref) ==
    [type |-> type, text |-> txt, key |-> key, spans |-> spans, ref |-> ref]

BoldText == <<"b", "o", "l", "d", " ", "t", "e", "x", "t">>
Abcd == <<"a", "b", "c", "d">>
BoldSpan == <<Span("bold", 0, 4)>>
TwoSpans == <<Span("bold", 0, 1), Span("italic", 2, 1)>>
Blocks ==
    {Block("header", <<"H", "i">>, "none", <<>>, <<>>),
     Block("p", BoldText, "styles", BoldSpan, <<>>),
     Block("p", BoldText, "style", BoldSpan, <<>>),
     Block("p", <<"a", "<", "b">>, "none", <<>>, <<>>),
     Block("p", Abcd, "style", TwoSpans, <<>>),
     Block("p", Abcd, "styles", TwoSpans, <<>>),
     Block("p", Abcd, "style", <<Span("bold", 2, 2)>>, <<>>),
     Block("p", Abcd, "style", <<Span("bold", 2, 2), Span("bold", 0, 1)>>, <<>>),
     Block("url_embed", <<>>, "none", <<>>, <<"e", "1">>),
     Block("image", <<>>, "none", <<>>, <<"i", "1">>),
     Block("image", <<>>, "none", <<>>, <<"i", "2">>),
     Block("file", <<>>, "none", <<>>, <<"f", "1">>),
     Block("video", <<>>, "none", <<>>, <<"v", "1">>)}

\* The side tables of the response: data["urlEmbedMap"], data["imageMap"],
\* data["fileMap"], and the entries of data["images"].
UrlEmbedMap(id) == [host |-> <<"e", "x", ".", "o", "r", "g">>, url |-> <<"h", "t", "t", "p", ":", "/", "/", "e", "x", ".", "o", "r", "g", "/">> \o id]
ImageData(id) ==
    [id |-> id,
     extension |-> CASE id = <<"i", "1">> -> <<"p", "n", "g">> [] id = <<"i", "2">> -> <<"z", "i", "p">> [] OTHER -> <<"j", "p", "g">>,
     originalUrl |-> <<"h", "t", "t", "p", ":", "/", "/", "i", "m", "g", "/">> \o id]
FileData(id) ==
    [id |-> id, name |-> <<"d", "o", "c">>, extension |-> <<"z", "i", "p">>, url |-> <<"h", "t", "t", "p", ":", "/", "/", "f", "i", "l", "e", "/">> \o id]

\* A member of the list a builder returns: its class, the fields the views
\* and the renderer read, and the element .html gives. A member of class
\* "_Element" is a bare lxml element, which has no .html.
Member(cls, id, name, html) == [cls |-> cls, id |-> id, name |-> name, html |-> html]

\* Paragraph(text=...).
NewParagraph(node) == Member("Paragraph", <<>>, <<>>, node)
\* Image(id=..., url=..., name=f"{id}.{extension}", thumbnail=...) and
\* Image.html.
NewImage(image) ==
    LET name == image.id \o <<".">> \o image.extension
    IN Member("Image", image.id, name,
              E("img", <<>>, <<<<<<"s", "r", "c">>, image.originalUrl>>, <<<<"i", "d">>, image.id>>,
                               <<<<"a", "l", "t">>, name>>>>))
\* File(id=..., url=..., name=f"{name}.{extension}", size=...) and File.html.
NewFile(file) ==
    LET name == file.name \o <<".">> \o file.extension
    IN Member("File", file.id, name,
              E("a", <<Str(name)>>, <<<<<<"h", "r", "e", "f">>, file.url>>, <<<<"i", "d">>, file.id>>>>))

\* _format_text, line 99: the key the spans are looked up under.
FormatKey == "style"

\* _format_text, lines 103-118: the loop over the spans and the rest of the
\* text after the last one.
RECURSIVE FormatSpans(_, _, _)
FormatSpans(txt, spans, current_index) ==
    IF spans = <<>>
    THEN (IF current_index < Len(txt) THEN <<Str(Slice(txt, current_index, Len(txt)))>>
          ELSE <<>>)
    ELSE LET style == Head(spans)
             formatted == Slice(txt, style.offset, style.offset + style.length)
         IN <<Str(Slice(txt, current_index, style.offset)),
              IF style.type = "bold" THEN El(E("b", <<Str(formatted)>>, <<>>))
              ELSE Str(formatted)>>
                \o FormatSpans(txt, Tail(spans), style.offset + style.length)

\* _format_text.
FormatText(block) ==
    IF block.key = FormatKey THEN FormatSpans(block.text, block.spans, 0)
    ELSE <<Str(block.text)>>

\* _build_article_body, lines 125-156: what one block appends, or the error
\* it raises.
BuildBlock(block) ==
    CASE block.type = "p" -> Ok(NewParagraph(E("p", FormatText(block), <<>>)))
      [] block.type = "header" -> Ok(NewParagraph(E("h2", <<Str(block.text)>>, <<>>)))
      [] block.type = "url_embed" ->
            Ok(Member("_Element", <<>>, <<>>,
                      E("a", <<Str(UrlEmbedMap(block.ref).host)>>,
                        <<<<<<"h", "r", "e", "f">>, UrlEmbedMap(block.ref).url>>>>)))
      [] block.type = "image" ->
            (IF ValidateMimeType("Image", NewImage(ImageData(block.ref)).name)
             THEN Ok(NewImage(ImageData(block.ref)))
             ELSE Raise(ValidationError))
      [] block.type = "file" -> Ok(NewFile(FileData(block.ref)))
      [] OTHER -> Raise(NotImplementedError)

\* A loop that appends what each entry gives and stops at the first error.
RECURSIVE BuildAll(_, _)
BuildAll(outcomes, acc) ==
    IF outcomes = <<>> THEN Ok(acc)
    ELSE IF Head(outcomes).err # "none" THEN [err |-> Head(outcomes).err, val |-> <<>>]
    ELSE BuildAll(Tail(outcomes), Append(acc, Head(outcomes).val))

\* _build_article_body.
BuildArticleBody(blocks) ==
    BuildAll([i \in 1..Len(blocks) |-> BuildBlock(blocks[i])], <<>>)

\* datamodel.py, _build_article_content, lines 85-102: the fragments of a
\* paragraph block; every slice is taken of what is left of the string.
RECURSIVE ContentSpans(_, _)
ContentSpans(cur_string, spans) ==
    IF spans = <<>> THEN <<>>
    ELSE LET style == Head(spans)
             formatted == Slice(cur_string, style.offset, style.offset + style.length)
         IN <<Str(Slice(cur_string, 0, style.offset)),
              IF style.type = "bold" THEN El(E("b", <<Str(formatted)>>, <<>>))
              ELSE Str(formatted)>>
                \o ContentSpans(Slice(cur_string, style.offset + style.length,
                                      Len(cur_string)), Tail(spans))

ContentText(block) ==
    IF block.key = "styles" THEN ContentSpans(block.text, block.spans)
    ELSE <<Str(block.text)>>

\* str.splitlines, for the line boundaries "\n", "\r" and "\r\n": cur is the
\* line being read.
RECURSIVE SplitFrom(_, _)
SplitFrom(s, cur) ==
    IF s = <<>> THEN (IF cur = <<>> THEN <<>> ELSE <<cur>>)
    ELSE IF Head(s) = "\r" /\ Len(s) > 1 /\ s[2] = "\n"
    THEN <<cur>> \o SplitFrom(Tail(Tail(s)), <<>>)
    ELSE IF Head(s) \in {"\n", "\r"} THEN <<cur>> \o SplitFrom(Tail(s), <<>>)
    ELSE SplitFrom(Tail(s), Append(cur, Head(s)))

SplitLines(s) == SplitFrom(s, <<>>)

\* The caption of an image post: data["text"], when the key is there.
NoCaption == [has |-> FALSE, s |-> <<>>]
Caption(s) == [has |-> TRUE, s |-> s]
Captions ==
    {NoCaption, Caption(<<>>), Caption(<<"a", "b", "c">>),
     Caption(<<"l", "1", "\n", "l", "2">>),
     Caption(<<"a", "\n">>), Caption(<<"\n", "b">>),
     Caption(<<"a", "\n", "\n", "b">>), Caption(<<"a", "\r", "\n", "b">>)}

ImageIds == {<<"i", "1">>, <<"i", "2">>, <<"i", "3">>}

\* Sequences of at most n members of a set.
SeqsUpTo(S, n) == UNION {[1..k -> S] : k \in 0..n}

\* The caption's paragraphs put before the images.
ImageBodyOrderCaptionFirst(images, paragraphs) == paragraphs \o images

\* _build_image_body, lines 162-174: the images, then result.extend(...).
ImageBodyOrder(images, paragraphs) == images \o paragraphs

\* _build_image_body.
BuildImageBody(images, caption) ==
    LET made_images ==
            BuildAll([i \in 1..Len(images) |->
                        IF ValidateMimeType("Image", NewImage(ImageData(images[i])).name)
                        THEN Ok(NewImage(ImageData(images[i])))
                        ELSE Raise(ValidationError)], <<>>)
        lines == IF caption.has THEN SplitLines(caption.s) ELSE <<>>
        paragraphs == [i \in 1..Len(lines) |-> NewParagraph(E("p", <<Str(lines[i])>>, <<>>))]
    IN IF made_images.err # "none" THEN made_images
       ELSE Ok(ImageBodyOrder(made_images.val, paragraphs))

\* PostBody.render: seg.html of every member, inside one body element.
Render(body) ==
    IF \E i \in 1..Len(body) : body[i].cls = "_Element"
    THEN [err |-> AttributeError, val |-> <<>>]
    ELSE Ok(Tostring(E("body", [i \in 1..Len(body) |-> El(body[i].html)], <<>>)))

NoBuild ==
    [type |-> "none", blocks |-> <<>>, images |-> <<>>, caption |-> NoCaption,
     err |-> "none", body |-> <<>>, frags |-> <<>>, content |-> <<>>,
     rendered |-> Ok(<<>>)]

NoBuilds == built = NoBuild /\ nbuilt = 0

\* What a build leaves: the outcome, then Post's validator, which hands the
\* list to PostBody(data) (the members, in their order), and a render of it.
Built(type, blocks, images, caption, outcome) ==
    [type |-> type, blocks |-> blocks, images |-> images, caption |-> caption,
     err |-> outcome.err,
     body |-> outcome.val,
     frags |-> [i \in 1..Len(blocks) |->
                  IF blocks[i].type = "p" THEN FormatText(blocks[i]) ELSE <<>>],
     content |-> [i \in 1..Len(blocks) |->
                    IF blocks[i].type = "p" THEN ContentText(blocks[i]) ELSE <<>>],
     rendered |-> IF outcome.err = "none" THEN Render(outcome.val) ELSE Ok(<<>>)]

\* A post of type "article" is validated.
BuildArticle(blocks) ==
    /\ nbuilt < MaxBuilt
    /\ nbuilt' = nbuilt + 1
    /\ built' = Built("article", blocks, <<>>, NoCaption, BuildArticleBody(blocks))

\* A post of type "image" is validated.
BuildImage(images, caption) ==
    /\ nbuilt < MaxBuilt
    /\ nbuilt' = nbuilt + 1
    /\ built' = Built("image", <<>>, images, caption, BuildImageBody(images, caption))

\* ------------------------------------------------------------------------
\* Every variable that belongs neither to the transport nor to the client,
\* and the state in which the models of the calls stand still.
rest == <<ivars, avars, bvars, svars, pvars, dvars, fvars>>

NoModels == NoApi /\ NoBodies /\ NoSegments /\ NoPrices /\ NoParses /\ NoBuilds

\* ------------------------------------------------------------------------
\* The transport on its own: one ClientTransport, built from arguments drawn
\* from the given sets, handling n requests that arrive in any interleaving.
\* The store may hold entries of earlier runs: it outlives the process.
TransportInit(settings, follows, rates, stores, n) ==
    /\ cache \in settings
    /\ follow_cache_control \in follows
    /\ rate_limit \in rates
    /\ tstate = "new"
    /\ cache_max_age = 0
    /\ force_cache = FALSE
    /\ max_rate = 0
    /\ time_period = 0
    /\ transports = {}
    /\ limiter = [t \in TransportIds |-> 0]
    /\ store \in stores
    /\ req = [r \in 1..n |-> NewRequest]
    /\ ticks = 0

\* The client before Client.__init__ has run, with n calls of connect() to come.
NoClient(n) ==
    /\ cstate = "new"
    /\ transport_cfg = 0
    /\ mounts = <<>>
    /\ session_attr = 0
    /\ user = FALSE
    /\ subs = [name \in NamespacedClients |-> 0]
    /\ conn = [c \in 1..n |-> NewConnect]
    /\ closed = {}
    /\ access = [name |-> "none", result |-> "none"]
    /\ ever_connected = FALSE

AllStores == SUBSET {KeyOf(u) : u \in Urls}

vars == <<tvars, cvars, rest>>

\* A ClientTransport used directly: no client takes part.
Unused == proxy = "none" /\ env_proxies = {} /\ NoClient(0) /\ NoIteration /\ NoModels

\* Concurrent requests on one transport.
Init ==
    /\ TransportInit(FewCacheSettings, BOOLEAN, {TwoPerSecond, OnePerSecond}, AllStores, MaxRequests)
    /\ Unused

Next ==
    \/ ClientTransportInit(1) /\ UNCHANGED <<cvars, rest>>
    \/ (\E r \in DOMAIN req, u \in Urls : HandleLookup(r, 1, u)) /\ UNCHANGED <<cvars, rest>>
    \/ (\E r \in DOMAIN req : Acquire(r)) /\ UNCHANGED <<cvars, rest>>
    \/ (\E r \in DOMAIN req : Delegate(r)) /\ UNCHANGED <<cvars, rest>>
    \/ (\E r \in DOMAIN req : OriginRespond(r)) /\ UNCHANGED <<cvars, rest>>
    \/ (\E r \in DOMAIN req : OriginFail(r)) /\ UNCHANGED <<cvars, rest>>
    \/ (\E u \in Urls : Expire(KeyOf(u))) /\ UNCHANGED <<cvars, rest>>
    \/ Tick /\ UNCHANGED <<cvars, rest>>

Spec == Init /\ [][Next]_vars

\* Construction from every kind of argument, then one request after another.
CtorInit ==
    /\ TransportInit(CacheSettings, BOOLEAN, RateLimits, {{}}, MaxCtorRequests)
    /\ Unused

CtorSpec == CtorInit /\ [][Next]_vars

\* A burst of cache-miss requests on a fresh transport limited to 2 req/s.
RateInit ==
    /\ TransportInit({BoolSetting(TRUE)}, {FALSE}, {TwoPerSecond}, {{}}, MaxBurst)
    /\ Unused

RateSpec == RateInit /\ [][Next]_vars

\* The life of a client: built, connected by concurrent connect() calls,
\* read and closed. The only requests are those of _retrieve_user.
LifecycleInit ==
    /\ TransportInit({BoolSetting(TRUE), StrSetting(<<"1", "x">>)}, {FALSE},
                     {OnePerSecond}, {{}}, MaxConnects)
    /\ proxy \in {"none", "explicit"}
    /\ env_proxies = {}
    /\ NoClient(MaxConnects)
    /\ NoIteration
    /\ NoModels

LifecycleNext ==
    \/ ClientInit /\ UNCHANGED rest
    \/ (\E c \in DOMAIN conn, r \in DOMAIN req : ConnectStart(c, r)) /\ UNCHANGED rest
    \/ (\E c \in DOMAIN conn : ConnectFinish(c)) /\ UNCHANGED rest
    \/ (\E name \in AttributeNames : Access(name)) /\ UNCHANGED rest
    \/ Close /\ UNCHANGED rest
    \/ (\E r \in DOMAIN req : Acquire(r)) /\ UNCHANGED <<cvars, rest>>
    \/ (\E r \in DOMAIN req : Delegate(r)) /\ UNCHANGED <<cvars, rest>>
    \/ (\E r \in DOMAIN req : OriginRespond(r)) /\ UNCHANGED <<cvars, rest>>
    \/ (\E r \in DOMAIN req : OriginFail(r)) /\ UNCHANGED <<cvars, rest>>
    \/ Tick /\ UNCHANGED <<cvars, rest>>

LifecycleSpec == LifecycleInit /\ [][LifecycleNext]_vars

\* The requests of a client: built with an explicit proxy, with the
\* environment's proxies or with none, connected once, then used.
ClientSpecInit ==
    /\ TransportInit({BoolSetting(TRUE)}, {FALSE}, {OnePerSecond}, {{}}, MaxClientRequests)
    /\ \/ proxy = "explicit" /\ env_proxies = {}
       \/ proxy = "none" /\ env_proxies \in EnvProxyMaps
    /\ NoClient(1)
    /\ NoIteration
    /\ NoModels

ClientNext ==
    \/ ClientInit /\ UNCHANGED rest
    \/ (\E c \in DOMAIN conn, r \in DOMAIN req : ConnectStart(c, r)) /\ UNCHANGED rest
    \/ (\E c \in DOMAIN conn : ConnectFinish(c)) /\ UNCHANGED rest
    \/ Close /\ UNCHANGED rest
    \/ (\E n \in NamespacedClients, r \in DOMAIN req, sc \in Schemes, u \in Urls :
          ApiSend(n, r, sc, u)) /\ UNCHANGED rest
    \/ (\E r \in DOMAIN req : Acquire(r)) /\ UNCHANGED <<cvars, rest>>
    \/ (\E r \in DOMAIN req : Delegate(r)) /\ UNCHANGED <<cvars, rest>>
    \/ (\E r \in DOMAIN req : OriginRespond(r)) /\ UNCHANGED <<cvars, rest>>
    \/ (\E r \in DOMAIN req : OriginFail(r)) /\ UNCHANGED <<cvars, rest>>
    \/ (\E u \in Urls : Expire(KeyOf(u))) /\ UNCHANGED <<cvars, rest>>
    \/ Tick /\ UNCHANGED <<cvars, rest>>

ClientSpec == ClientSpecInit /\ [][ClientNext]_vars

\* One iteration of a creator's posts, with and without the posts' bodies.
\* The session's requests are taken as sent and answered; the transport and
\* the client stand still.
IterInit ==
    /\ TransportInit({BoolSetting(TRUE)}, {FALSE}, {OnePerSecond}, {{}}, 0)
    /\ proxy = "none" /\ env_proxies = {} /\ NoClient(0)
    /\ include_body \in BOOLEAN
    /\ ipc = "created"
    /\ list_reqs = 0
    /\ page_no = 0
    /\ result = [items |-> <<>>, nextUrl |-> "none"]
    /\ tasks = <<>>
    /\ yielded = <<>>
    /\ out = [page |-> 0, pos |-> 0, id |-> 0]
    /\ ierr = "none"
    /\ NoModels

IterNext ==
    \/ IterStart /\ UNCHANGED <<tvars, cvars, avars, bvars, svars, pvars, dvars, fvars>>
    \/ (\E items \in Listings, more \in NextUrls : ListRespond(items, more))
          /\ UNCHANGED <<tvars, cvars, avars, bvars, svars, pvars, dvars, fvars>>
    \/ (\E status \in ListStatuses : ListFail(status)) /\ UNCHANGED <<tvars, cvars, avars, bvars, svars, pvars, dvars, fvars>>
    \/ (\E k \in 1..MaxItems, status \in GetStatuses : DetailRespond(k, status))
          /\ UNCHANGED <<tvars, cvars, avars, bvars, svars, pvars, dvars, fvars>>
    \/ IterResume /\ UNCHANGED <<tvars, cvars, avars, bvars, svars, pvars, dvars, fvars>>
    \/ IterClose /\ UNCHANGED <<tvars, cvars, avars, bvars, svars, pvars, dvars, fvars>>

IterSpec == IterInit /\ [][IterNext]_vars

\* The same iteration with a consumer that goes on asking for the next post
\* for as long as it has not closed the generator, and a server that answers
\* every request it was sent, with a response or a failure.
IterStill == UNCHANGED <<tvars, cvars, avars, bvars, svars, pvars, dvars, fvars>>
ListAnswered ==
    \/ \E items \in Listings, more \in NextUrls : ListRespond(items, more)
    \/ \E status \in ListStatuses : ListFail(status)
DetailAnswered == \E k \in 1..MaxItems, status \in GetStatuses : DetailRespond(k, status)
IterFairSpec ==
    /\ IterInit
    /\ [][IterNext]_vars
    /\ WF_vars(IterStart /\ IterStill)
    /\ WF_vars(IterResume /\ IterStill)
    /\ WF_vars(ListAnswered /\ IterStill)
    /\ WF_vars(DetailAnswered /\ IterStill)

\* The transport and the client standing still.
Idle ==
    /\ TransportInit({BoolSetting(TRUE)}, {FALSE}, {OnePerSecond}, {{}}, 0)
    /\ proxy = "none" /\ env_proxies = {} /\ NoClient(0)

\* Calls of the namespaced clients on a connected client, answered in any
\* order with any status.
ApiInit ==
    /\ Idle
    /\ NoIteration
    /\ calls = [c \in 1..MaxCalls |-> NewCall]
    /\ NoBodies
    /\ NoSegments
    /\ NoPrices
    /\ NoParses
    /\ NoBuilds

ApiNext ==
    \/ (\E c \in DOMAIN calls, op \in Lookups \cup ByCreator : \E arg \in CallArgs(op) :
          ApiCall(c, op, arg)) /\ UNCHANGED <<tvars, cvars, ivars, bvars, svars, pvars, dvars, fvars>>
    \/ (\E c \in DOMAIN calls, status \in Statuses : ApiRespond(c, status))
          /\ UNCHANGED <<tvars, cvars, ivars, bvars, svars, pvars, dvars, fvars>>

ApiSpec == ApiInit /\ [][ApiNext]_vars

\* Bodies built from the segments of a response and a caller's list, then
\* added, copied, viewed and changed in any order.
BodyInit ==
    /\ Idle
    /\ NoIteration
    /\ NoApi
    /\ segs = InitialSegs
    /\ nodes = <<0>>
    /\ \E l \in InitialLists : lists = <<ListObj("list", l)>>
    /\ last = NoLast
    /\ tr = NoTrack
    /\ NoSegments
    /\ NoPrices
    /\ NoParses
    /\ NoBuilds

BodyNext ==
    \/ (\E x \in Operands : Construct(x)) /\ UNCHANGED <<tvars, cvars, ivars, avars, svars, pvars, dvars, fvars>>
    \/ (\E a \in DOMAIN lists, x \in Operands : IAdd(a, x))
          /\ UNCHANGED <<tvars, cvars, ivars, avars, svars, pvars, dvars, fvars>>
    \/ (\E a \in DOMAIN lists : Copy(a)) /\ UNCHANGED <<tvars, cvars, ivars, avars, svars, pvars, dvars, fvars>>
    \/ (\E a \in DOMAIN lists, x \in Operands : Add(a, x))
          /\ UNCHANGED <<tvars, cvars, ivars, avars, svars, pvars, dvars, fvars>>
    \/ (\E a \in DOMAIN lists, kind \in ViewKinds : View(a, kind))
          /\ UNCHANGED <<tvars, cvars, ivars, avars, svars, pvars, dvars, fvars>>
    \/ (\E l \in DOMAIN lists : Pop(l)) /\ UNCHANGED <<tvars, cvars, ivars, avars, svars, pvars, dvars, fvars>>
    \/ (\E l \in DOMAIN lists, i \in 1..MaxLen : SetText(l, i))
          /\ UNCHANGED <<tvars, cvars, ivars, avars, svars, pvars, dvars, fvars>>

BodySpec == BodyInit /\ [][BodyNext]_vars

\* Segments constructed one after another with any class and display name.
SegmentInit ==
    /\ Idle
    /\ NoIteration
    /\ NoApi
    /\ NoBodies
    /\ NoSegments
    /\ NoPrices
    /\ NoParses
    /\ NoBuilds

SegmentNext ==
    (\E kind \in SegmentKinds, name \in Names : NewSegment(kind, name))
        /\ UNCHANGED <<tvars, cvars, ivars, avars, bvars, pvars, dvars, fvars>>

SegmentSpec == SegmentInit /\ [][SegmentNext]_vars

\* Two prices a caller holds, compared and used in arithmetic with each
\* other and with plain numbers.
PriceInit ==
    /\ Idle
    /\ NoIteration
    /\ NoApi
    /\ NoBodies
    /\ NoSegments
    /\ pa \in Prices
    /\ pb \in Prices
    /\ pres = [op |-> "none", self |-> NoPrice, other |-> PriceOperand(NoPrice),
               err |-> "none", bool |-> FALSE, price |-> NoPrice]
    /\ NoParses
    /\ NoBuilds

PriceNext ==
    \/ (\E op \in Comparisons : Compare(op, pa, pb) \/ Compare(op, pb, pa))
          /\ UNCHANGED <<tvars, cvars, ivars, avars, bvars, svars, dvars, fvars>>
    \/ (\E op \in Arithmetic, other \in Numbers \cup {PriceOperand(pb)} : Arith(op, other))
          /\ UNCHANGED <<tvars, cvars, ivars, avars, bvars, svars, dvars, fvars>>
    \/ (\E op \in InPlace, other \in Numbers \cup {PriceOperand(pb)} : ArithInPlace(op, other))
          /\ UNCHANGED <<tvars, cvars, ivars, avars, bvars, svars, dvars, fvars>>

PriceSpec == PriceInit /\ [][PriceNext]_vars

\* parse_duration called with integers, strings of the grammar and strings
\* outside it.
ParseInit ==
    /\ Idle
    /\ NoIteration
    /\ NoApi
    /\ NoBodies
    /\ NoSegments
    /\ NoPrices
    /\ parses = <<>>
    /\ NoBuilds

ParseNext ==
    (\E c \in DurationArguments : Parse(c))
        /\ UNCHANGED <<tvars, cvars, ivars, avars, bvars, svars, pvars, fvars>>

ParseSpec == ParseInit /\ [][ParseNext]_vars

\* Posts of both types validated one after another, with any blocks, images
\* and caption.
BuildInit ==
    /\ Idle
    /\ NoIteration
    /\ NoApi
    /\ NoBodies
    /\ NoSegments
    /\ NoPrices
    /\ NoParses
    /\ built = NoBuild
    /\ nbuilt = 0

BuildNext ==
    \/ (\E blocks \in SeqsUpTo(Blocks, MaxBlocks) : BuildArticle(blocks))
          /\ UNCHANGED <<tvars, cvars, ivars, avars, bvars, svars, pvars, dvars>>
    \/ (\E images \in SeqsUpTo(ImageIds, MaxImages), caption \in Captions :
          BuildImage(images, caption))
          /\ UNCHANGED <<tvars, cvars, ivars, avars, bvars, svars, pvars, dvars>>

BuildSpec == BuildInit /\ [][BuildNext]_vars

\* Posts of type "image" alone.
ImageBuildNext ==
    (\E images \in SeqsUpTo(ImageIds, MaxImages), caption \in Captions :
        BuildImage(images, caption))
        /\ UNCHANGED <<tvars, cvars, ivars, avars, bvars, svars, pvars, dvars>>

ImageBuildSpec == BuildInit /\ [][ImageBuildNext]_vars

\* ------------------------------------------------------------------------
\* Properties.

Sent2Transport(r) == req[r].pc \in {"delegate", "origin", "done", "failed"}

\* C1: in handle_async_request a request takes a rate-limit token if and
\* only if the lookup of its key found no entry; it takes exactly one, and
\* has taken it before it is handed to the underlying transport; a request
\* whose lookup hit takes none.
C1_TokenIffLookupMissed ==
    \A r \in DOMAIN req :
        /\ req[r].tokens \in {0, 1}
        /\ req[r].pc \in {"new", "acquire"} => req[r].tokens = 0
        /\ Sent2Transport(r) => (req[r].tokens = 1 <=> ~req[r].hit)

\* C1 happens: one request was answered after a hit and took no token while
\* another, whose lookup missed, holds its token and is at the origin.
C1_Witness ==
    \E r1, r2 \in DOMAIN req :
        /\ req[r1].hit /\ req[r1].pc = "done" /\ req[r1].tokens = 0
        /\ ~req[r2].hit /\ req[r2].pc = "origin" /\ req[r2].tokens = 1

\* C2: under every interleaving, a request is fetched from the origin only
\* if it took a token, and a request that took a token is not answered from
\* the cache.
C2_NoUnderLimitingNoDoublePenalty ==
    \A r \in DOMAIN req :
        /\ (req[r].pc = "origin" \/ req[r].served = "origin") => req[r].tokens = 1
        /\ req[r].served = "cache" => req[r].tokens = 0

\* The requests whose lookup missed and that were handed to the underlying
\* transport at a tick of lo..hi.
MissDispatched(lo, hi) ==
    {r \in DOMAIN req : ~req[r].hit /\ req[r].at >= lo /\ req[r].at <= hi}

\* C3: all requests of one client draw from one bucket: in no window of
\* period seconds (max_requests leak intervals) are more than max_requests
\* cache-miss requests of the client dispatched, however many transports it
\* mounts.
C3_OneBucketPerClient ==
    LET rl == ParseRateLimit(rate_limit).val
    IN cstate = "created" =>
         \A lo \in 0..MaxTicks :
             Cardinality(MissDispatched(lo, lo + rl[1] - 1)) <= rl[1]

\* C4: every request a connected client issues passes through a
\* ClientTransport, whatever the proxy configuration.
C4_EveryRequestThroughClientTransport ==
    \A r \in DOMAIN req :
        (req[r].owner = "api" /\ req[r].key # NoneVal) => req[r].tr # 0

\* C5 as stated: with "2 req/s" on a fresh transport the second of two
\* cache-miss requests issued back to back is dispatched only after time
\* has passed.
C5_SecondRequestDelayed ==
    Cardinality(MissDispatched(0, 0)) <= 1

\* C5, amended: with "2 req/s" on a fresh transport the bucket gives out two
\* tokens at once, so the first two cache-miss requests are dispatched
\* without waiting; every further one waits for a leak interval (half a
\* second) to free capacity.
C5_BurstOfTwoThenDelayed ==
    tstate = "ready" =>
        /\ \A t \in 0..MaxTicks : Cardinality(MissDispatched(0, t)) <= 2 + t
        /\ (ticks = 0 /\ Cardinality({r \in DOMAIN req : req[r].tokens > 0}) < 2) =>
              \A r \in DOMAIN req : req[r].pc = "acquire" => ENABLED Acquire(r)

\* C5 happens: two cache-miss requests were dispatched with no time passed,
\* and a third waits for a token.
C5_Witness ==
    /\ ticks = 0
    /\ Cardinality(MissDispatched(0, 0)) = 2
    /\ \E r \in DOMAIN req : req[r].pc = "acquire" /\ ~ENABLED Acquire(r)

\* C6: the marks handle puts on a request: cache-bypassing alone when the
\* resolved maximum age is 0; force-cached alone when caching is enabled and
\* follow_cache_control is false; none when caching is enabled and
\* follow_cache_control is true.
C6_MarksByPolicy ==
    \A r \in DOMAIN req :
        req[r].pc # "new" =>
            /\ cache_max_age = 0 => req[r].ext = {"cache_disabled"}
            /\ (cache_max_age # 0 /\ ~follow_cache_control) => req[r].ext = {"force_cache"}
            /\ (cache_max_age # 0 /\ follow_cache_control) => req[r].ext = {}

\* C6 happens: a request was handled by an instance with caching disabled
\* and forced caching on, and carries the bypass mark alone.
C6_Witness ==
    \E r \in DOMAIN req :
        /\ req[r].pc # "new"
        /\ cache_max_age = 0 /\ force_cache
        /\ req[r].ext = {"cache_disabled"}

\* The seconds the duration strings of CacheSettings stand for.
C7_Seconds(s) ==
    CASE s = <<"1", "h">> -> 3600
      [] s = <<"1", "h", ",", " ", "3", "0", "m">> -> 5400
      [] s = <<"3", ".", "1", "4", "m">> -> 188
      [] s = <<"5", " ", "s", "e", "c">> -> 5
      [] OTHER -> 0

\* What C7 says of the resolved age and of when caching is disabled.
C7_Resolved ==
    /\ cache.type = "bool" => cache_max_age = (IF cache.b THEN 86400 ELSE 0)
    /\ cache.type = "int" => cache_max_age = cache.n
    /\ cache.type = "str" => cache_max_age = C7_Seconds(cache.s)
    /\ \A r \in DOMAIN req :
          req[r].pc # "new" =>
              ("cache_disabled" \in req[r].ext
                   <=> (cache = BoolSetting(FALSE) \/ cache_max_age = 0))

\* C7 as stated: the setting resolves to the maximum age (true 86400, false
\* 0, an integer itself, a string its seconds); caching is disabled exactly
\* when the setting is false or resolves to 0 and is enabled with a
\* positive maximum age otherwise.
C7_EnabledMeansPositive ==
    tstate = "ready" =>
        /\ C7_Resolved
        /\ \A r \in DOMAIN req :
              (req[r].pc # "new" /\ "cache_disabled" \notin req[r].ext) => cache_max_age > 0

\* C7, amended: as stated, except that a negative integer setting is kept
\* as it is: caching is then enabled with that negative maximum age.
C7_EnabledMeansNonZero ==
    tstate = "ready" =>
        /\ C7_Resolved
        /\ \A r \in DOMAIN req :
              (req[r].pc # "new" /\ "cache_disabled" \notin req[r].ext) =>
                  \/ cache_max_age > 0
                  \/ cache.type = "int" /\ cache.n < 0 /\ cache_max_age = cache.n

\* C7 happens: an instance built with a negative integer handled a request
\* with caching enabled.
C7_Witness ==
    \E r \in DOMAIN req :
        /\ tstate = "ready" /\ cache.type = "int" /\ cache.n < 0
        /\ req[r].pc # "new" /\ "force_cache" \in req[r].ext

\* C8: until a connect() call has completed, reading the session or a
\* declared sub-client, and close(), give NotConnectedError and none of
\* them is set; once one has completed, every declared sub-client is set
\* and bound to the session of the client, which a completed connect()
\* created.
C8_TwoStates ==
    /\ ~ever_connected =>
          /\ access.name \in NamespacedClients \cup {"_session", "close"}
                => access.result = NotConnectedError
          /\ session_attr = 0
          /\ \A n \in NamespacedClients : subs[n] = 0
    /\ ever_connected =>
          /\ session_attr # 0
          /\ \A n \in NamespacedClients : subs[n] = session_attr
          /\ \E c \in DOMAIN conn : conn[c].pc = "done" /\ conn[c].s = session_attr

\* C8 happens: while a connect() call is waiting for the user, a
\* sub-client was read and gave NotConnectedError.
C8_Witness ==
    /\ ~ever_connected
    /\ \E c \in DOMAIN conn : conn[c].pc = "retrieving"
    /\ access.name \in NamespacedClients
    /\ access.result = NotConnectedError

\* C9: in one iteration by creator the posts of a listing are yielded in
\* the order the server returned them, with none passed over but those whose
\* get returned None; a listing request is sent only once the response to
\* the one before has arrived and all of its posts have been yielded, so the
\* posts of page N are all yielded before any of page N+1.
C9_PageOrder ==
    LET items == result.items
        Passed(p) == include_body /\ tasks[p] = "none"
    IN  /\ \A i \in 1..Len(yielded) : yielded[i] \in 1..Len(items)
        /\ \A i, j \in 1..Len(yielded) : i < j => yielded[i] < yielded[j]
        /\ \A i \in 1..Len(yielded) : \A p \in 1..(yielded[i] - 1) :
              (\E j \in 1..Len(yielded) : yielded[j] = p) \/ Passed(p)
        /\ ipc = "suspended" =>
              /\ yielded # <<>>
              /\ out = [page |-> page_no, pos |-> yielded[Len(yielded)],
                        id |-> items[yielded[Len(yielded)]]]
        /\ out.page <= page_no
        /\ list_reqs \in {page_no, page_no + 1}
        /\ ipc = "listing" => list_reqs = page_no + 1
        /\ list_reqs = page_no + 1 =>
              \A p \in 1..Len(items) :
                  (\E j \in 1..Len(yielded) : yielded[j] = p) \/ Passed(p)

\* The second post of a second page is yielded, and the server's order on
\* that page is not the order of the ids.
C9_Witness ==
    /\ ipc = "suspended"
    /\ page_no = 2
    /\ Len(yielded) = 2
    /\ result.items[1] > result.items[2]

\* C10: with include_body one get per item of the listing is in flight from
\* the moment the listing is taken up; a post of the listing is yielded only
\* when every get has returned and none has failed; and when one get has
\* failed the generator has failed with none of the listing's posts yielded.
C10_BatchAtomic ==
    include_body =>
        /\ page_no >= 1 => Len(tasks) = Len(result.items)
        /\ yielded # <<>> => \A k \in DOMAIN tasks : tasks[k] \in {"post", "none"}
        /\ (\E k \in DOMAIN tasks : tasks[k] = "error") =>
              /\ yielded = <<>>
              /\ ipc = "failed"
              /\ out.page < page_no

\* One get of a second page has failed after another had returned its post.
C10_Witness ==
    /\ include_body
    /\ page_no = 2
    /\ ipc = "failed"
    /\ \E k, j \in DOMAIN tasks : tasks[k] = "error" /\ tasks[j] = "post"

\* C11: a lookup of one entity (creator.get, post.get, newsletter.get) that
\* the platform answers with 404 ends with None and no error; answered with
\* any other status that is an error, it ends with that error.
C11_AbsentIsNone ==
    \A c \in DOMAIN calls :
        (calls[c].pc = "done" /\ calls[c].op \in Lookups /\ calls[c].status # 0) =>
            /\ calls[c].status = 404 => calls[c].outcome = NoneVal
            /\ (RaisesForStatus(calls[c].status) /\ calls[c].status # 404) =>
                  calls[c].outcome = HTTPStatusError
            /\ calls[c].outcome = NoneVal => calls[c].status = 404

\* One lookup has ended with None for a 404, another with the error of a 500.
C11_Witness ==
    \E c, d \in DOMAIN calls :
        /\ calls[c].pc = "done" /\ calls[c].op = "creator.get"
        /\ calls[c].status = 404 /\ calls[c].outcome = NoneVal
        /\ calls[d].pc = "done" /\ calls[d].op = "newsletter.get"
        /\ calls[d].status = 500 /\ calls[d].outcome = HTTPStatusError

\* C12: listing the plans or iterating the posts of a creator that the
\* platform answers with 404 ends with the ValueError that names the creator,
\* never with a listing; and no call ends with that error unless it is one
\* of these and its request for the creator was answered with 404.
C12_MissingCreatorIsError ==
    \A c \in DOMAIN calls :
        calls[c].pc = "done" =>
            /\ (calls[c].op \in ByCreator /\ calls[c].status = 404) =>
                  calls[c].outcome = CreatorNotFound
            /\ calls[c].outcome = CreatorNotFound =>
                  (calls[c].op \in ByCreator /\ calls[c].status = 404)

\* The plans of a missing creator are asked for, and a missing post is
\* looked up: the first ends with the error, the second does not.
C12_Witness ==
    \E c, d \in DOMAIN calls :
        /\ calls[c].pc = "done" /\ calls[c].op = "plan.list_by_creator"
        /\ calls[c].status = 404 /\ calls[c].outcome = CreatorNotFound
        /\ calls[d].pc = "done" /\ calls[d].op = "post.get"
        /\ calls[d].status = 404 /\ calls[d].outcome # CreatorNotFound

\* C13: PostBody(x) holds nothing for no argument, the segment for one
\* segment, the items in order for a list of segments, and the segments of
\* the body in order for another PostBody.
C13_ConstructNormalizes ==
    last.op = "construct" =>
        lists[last.r].items =
            IF last.x.type = "Segment" THEN <<last.x.ref>>
            ELSE IF last.x.type = "list" THEN last.x_items
            ELSE <<>>

\* C14: for bodies a and b, also a and b the same body, a + b is a new body
\* of length len(a) + len(b) that holds what a holds followed by what b
\* holds, and a and b are as they were before.
C14_AddIsNewConcatenation ==
    (last.op = "add" /\ last.x.type = "list" /\ last.x.ref \in PostBodies) =>
        /\ last.r > last.nlists
        /\ lists[last.r].cls = "PostBody"
        /\ Len(lists[last.r].items) = Len(last.a_items) + Len(last.x_items)
        /\ Value(last.r) = last.a_value \o last.x_value
        /\ lists[last.a].items = last.a_items /\ Value(last.a) = last.a_value
        /\ lists[last.x.ref].items = last.x_items /\ Value(last.x.ref) = last.x_value

\* A body that holds a segment has been added to itself.
C14_Witness ==
    /\ last.op = "add"
    /\ last.x = ListOperand(last.a)
    /\ last.a \in PostBodies
    /\ Len(last.a_items) >= 1
    /\ Len(lists[last.r].items) = 2 * Len(last.a_items)

\* C15: a += x changes a in place and binds the same object: a segment x is
\* put once at the end, the items of a list or another body x follow a's own
\* in order, and x is as it was before.
C15_IAddInPlace ==
    last.op = "iadd" =>
        /\ last.r = last.a
        /\ Len(lists) = last.nlists
        /\ last.x.type = "Segment" => lists[last.a].items = Append(last.a_items, last.x.ref)
        /\ last.x.type = "list" => lists[last.a].items = last.a_items \o last.x_items
        /\ (last.x.type = "list" /\ last.x.ref # last.a) =>
              /\ lists[last.x.ref].items = last.x_items
              /\ Value(last.x.ref) = last.x_value

\* A body that holds a segment has had another body that holds one added.
C15_Witness ==
    /\ last.op = "iadd"
    /\ last.x.type = "list" /\ last.x.ref \in PostBodies /\ last.x.ref # last.a
    /\ last.a_items # <<>> /\ last.x_items # <<>>
    /\ lists[last.a].items # last.a_items

\* C16: a.copy() holds what a holds, in a new body with segments and markup
\* nodes of its own; as long as the caller has not put segments of the one
\* into the other, what is done to the copy leaves a as it was and what is
\* done to a leaves the copy as it was.
C16_CopyIsIndependent ==
    /\ last.op = "copy" =>
          /\ last.r > last.nlists
          /\ Value(last.r) = last.a_value
          /\ lists[last.a].items = last.a_items /\ Value(last.a) = last.a_value
    /\ tr.kind = "copy" =>
          /\ SegsOf(lists[tr.src].items) \cap SegsOf(lists[tr.dst].items) = {}
          /\ NodesOf(lists[tr.src].items) \cap NodesOf(lists[tr.dst].items) = {}
          /\ ~tr.src_touched => Value(tr.src) = tr.src_snap
          /\ ~tr.dst_touched => Value(tr.dst) = tr.dst_snap

\* The markup node of a paragraph of the copy has been changed, and the
\* original has not been touched.
C16_Witness ==
    /\ tr.kind = "copy"
    /\ last.op = "settext" /\ last.a = tr.dst
    /\ tr.dst_touched /\ ~tr.src_touched
    /\ Value(tr.dst) # tr.dst_snap
    /\ NodesOf(lists[tr.src].items) # {}

\* C17: images, videos and files each give a new plain list that holds the
\* body's segments of that class and no others, in the body's order; what
\* is done to the list leaves the body's items as they were, and the
\* reverse; and no segment of a body is in two of its three views.
C17_ViewsAreFreshAndExact ==
    /\ last.op = "view" =>
          /\ last.r > last.nlists
          /\ lists[last.r].cls = "list"
          /\ lists[last.r].items =
                SelectSeq(last.a_items, LAMBDA s : segs[s].kind = last.kind)
          /\ lists[last.a].items = last.a_items
    /\ tr.kind = "view" =>
          /\ ~tr.src_touched => lists[tr.src].items = tr.src_snap
          /\ ~tr.dst_touched => lists[tr.dst].items = tr.dst_snap
    /\ \A b \in PostBodies : \A k1, k2 \in ViewKinds :
          k1 # k2 => SegsOf(Filter(lists[b].items, k1)) \cap SegsOf(Filter(lists[b].items, k2)) = {}

\* The images of a body that holds two images and something else between
\* or around them have been taken.
C17_Witness ==
    /\ last.op = "view" /\ last.kind = "Image"
    /\ Len(lists[last.r].items) = 2
    /\ Len(last.a_items) > 2

\* C18: every Image that has been constructed has a display name whose
\* derived MIME type is image/*, every Video one whose type is video/*; a
\* construction of an Image or Video whose name derives another category or
\* none ends with a validation error and adds no segment.
C18_MimeCategoryByConstruction ==
    /\ \A i \in 1..Len(made) :
          /\ made[i].kind = "Image" => GuessType(made[i].name).category = "image"
          /\ made[i].kind = "Video" => GuessType(made[i].name).category = "video"
    /\ (made_out.kind = "Image" /\ GuessType(made_out.name).category # "image") =>
          made_out.outcome = ValidationError
    /\ (made_out.kind = "Video" /\ GuessType(made_out.name).category # "video") =>
          made_out.outcome = ValidationError
    /\ made_out.outcome = ValidationError => Len(made) = made_out.before
    /\ made_out.outcome = "made" => Len(made) = made_out.before + 1

\* After an Image was made, an Image whose name derives a video type was
\* refused.
C18_Witness ==
    /\ Len(made) = 1 /\ made[1].kind = "Image"
    /\ made_out.kind = "Image" /\ GuessType(made_out.name).category = "video"
    /\ made_out.outcome = ValidationError

\* C19: for two prices of one currency exactly one of a < b, a == b, b < a
\* is true and none raises; for prices of different currencies == and <
\* raise ValueError and give no boolean.
C19_Trichotomy ==
    /\ pa.currency = pb.currency =>
          /\ PriceLt(pa, pb).err = "none" /\ PriceEq(pa, pb).err = "none"
          /\ PriceLt(pb, pa).err = "none"
          /\ Cardinality({k \in 1..3 :
                <<PriceLt(pa, pb).val, PriceEq(pa, pb).val, PriceLt(pb, pa).val>>[k]}) = 1
    /\ pa.currency # pb.currency =>
          /\ PriceEq(pa, pb).err = ValueError /\ PriceEq(pb, pa).err = ValueError
          /\ PriceLt(pa, pb).err = ValueError /\ PriceLt(pb, pa).err = ValueError
    /\ pres.op \in Comparisons =>
          /\ pres.self.currency # pres.other.currency => pres.err = ValueError
          /\ pres.self.currency = pres.other.currency =>
                /\ pres.err = "none"
                /\ pres.op = "lt" => (pres.bool <=> pres.self.value < pres.other.value)
                /\ pres.op = "eq" => (pres.bool <=> pres.self.value = pres.other.value)

\* Two prices of one currency and different values have been compared with
\* <, and the answer was that the first is less.
C19_Witness ==
    /\ pres.op = "lt"
    /\ pres.self.currency = pres.other.currency
    /\ pres.self.value # pres.other.value
    /\ pres.err = "none" /\ pres.bool

\* C20: + and - of two prices of different currencies raise ValueError and
\* give no Price; with a plain number on either side they give a Price of
\* the price's currency whose value is the exact sum or difference (number
\* minus value for number - price); the operands are as they were; and the
\* result is a valid Price: a currency of three capitals and a value of two
\* fractional digits.
C20_ArithmeticKeepsPriceValid ==
    pres.op \in Arithmetic \cup InPlace =>
        /\ (pres.other.type = "Price" /\ pres.other.currency # pres.self.currency) =>
              pres.err = ValueError /\ pres.price = NoPrice
        /\ pres.other.type # "Price" =>
              /\ pres.err = "none"
              /\ pres.price.currency = pres.self.currency
              /\ pres.op \in {"add", "radd", "iadd"} =>
                    pres.price.value = pres.self.value + pres.other.value
              /\ pres.op \in {"sub", "isub"} =>
                    pres.price.value = pres.self.value - pres.other.value
              /\ pres.op = "rsub" => pres.price.value = pres.other.value - pres.self.value
        /\ pres.op \in Arithmetic => pres.self = pa
        /\ (pres.err = "none" /\ PriceValid(pres.self)) => PriceValid(pres.price)


\* C21: parse_duration returns an integer argument unchanged; for every
\* non-negative integer n the string "<n> sec" is parsed to n; a missing
\* number counts as 1; "1h" is 3600, "1h, 30m" is 5400 and "3.14m", rounded
\* to the nearest second, is 188.
C21_ParseDuration ==
    \A i \in 1..Len(parses) :
        LET c == parses[i].arg
            got == parses[i].out
        IN /\ c.type = "int" => got = Ok(IntToDigits(c.n))
           /\ \A n \in SecondsTexts : c = StrSetting(n \o SecSuffix) => got = Ok(n)
           /\ c = StrSetting(<<"h">>) => got = Ok(<<"3", "6", "0", "0">>)
           /\ c = StrSetting(<<"1", "h">>) => got = Ok(<<"3", "6", "0", "0">>)
           /\ c = StrSetting(<<"1", "h", ",", " ", "3", "0", "m">>) => got = Ok(<<"5", "4", "0", "0">>)
           /\ c = StrSetting(<<"3", ".", "1", "4", "m">>) => got = Ok(<<"1", "8", "8">>)

\* A string of the grammar: tokens of an optional number and a known unit,
\* separated by commas and spaces, with no other text before, between or
\* after them.
RECURSIVE C22_Skips(_, _)
C22_Skips(s, i) ==
    IF i > Len(s) THEN FALSE
    ELSE LET m == MatchAt(s, i)
         IN IF m.ok THEN C22_Skips(s, m.end) ELSE TRUE

C22_Conforms(s) ==
    /\ FindAll(s, 1) # <<>>
    /\ ~C22_Skips(s, 1)
    /\ TokensValid(FindAll(s, 1))

\* C22: a duration string that does not conform to the grammar makes
\* parsing fail with an error; no part of it is passed over in silence.
C22_MalformedFails ==
    \A i \in 1..Len(parses) :
        LET c == parses[i].arg
        IN (c.type = "str" /\ ~C22_Conforms(c.s)) => parses[i].out.err = ValueError


\* C23: the article blocks [header "Hi", p "bold text" with the styles
\* [bold, offset 0, length 4]] build a body of length 2 that renders as an
\* h2 "Hi" followed by a paragraph of a bold "bold" and a plain " text".
C23_ArticleExample ==
    (/\ built.type = "article"
     /\ built.blocks = <<Block("header", <<"H", "i">>, "none", <<>>, <<>>),
                         Block("p", BoldText, "styles", BoldSpan, <<>>)>>) =>
        /\ built.err = "none"
        /\ Len(built.body) = 2
        /\ built.rendered = Ok(<<"<", "b", "o", "d", "y", ">", "<", "h", "2", ">", "H", "i", "<", "/", "h", "2", ">", "<", "p", ">", "<", "b", ">", "b", "o", "l", "d", "<", "/", "b", ">", " ", "t", "e", "x", "t", "<", "/", "p", ">", "<", "/", "b", "o", "d", "y", ">">>)

\* The text of the lines joined by "\n".
RECURSIVE C24_Join(_)
C24_Join(lines) ==
    IF lines = <<>> THEN <<>>
    ELSE IF Len(lines) = 1 THEN lines[1]
    ELSE lines[1] \o <<"\n">> \o C24_Join(Tail(lines))

C25_Recognized == {"p", "header", "url_embed", "image", "file"}
C25_OneSegmentPerBlock ==
    (/\ built.type = "article"
     /\ built.err = "none"
     /\ \A i \in 1..Len(built.blocks) : built.blocks[i].type \in C25_Recognized) =>
        /\ Len(built.body) = Len(built.blocks)
        /\ \A i \in 1..Len(built.blocks) :
             LET block == built.blocks[i]
                 member == built.body[i]
             IN /\ member.cls \in {"Paragraph", "Image", "Video", "File"}
                /\ block.type \in {"p", "header"} => member.cls = "Paragraph"
                /\ block.type = "image" => member.cls = "Image" /\ member.id = block.ref
                /\ block.type = "file" => member.cls = "File" /\ member.id = block.ref
                /\ block.type = "url_embed" => member.html.tag = "a"
        /\ built.rendered.err = "none"

\* The text of a fragment, and of a list of fragments.
C26_Text(f) == IF f.type = "str" THEN f.text ELSE f.node.text
RECURSIVE C26_Concat(_)
C26_Concat(frags) ==
    IF frags = <<>> THEN <<>> ELSE C26_Text(Head(frags)) \o C26_Concat(Tail(frags))

\* Spans sorted by offset, not overlapping, inside the text.
C26_SpansInOrder(block) ==
    /\ \A k \in 1..Len(block.spans) :
         /\ block.spans[k].offset >= 0
         /\ block.spans[k].length >= 0
         /\ block.spans[k].offset + block.spans[k].length <= Len(block.text)
    /\ \A k \in 1..(Len(block.spans) - 1) :
         block.spans[k].offset + block.spans[k].length <= block.spans[k + 1].offset

\* The fragments are the text cut at the spans: together they are the text,
\* and each span has a fragment that starts at its offset, is its slice of
\* the text, and is bold exactly when the span is.
C26_CutAtSpans(block, frags) ==
    /\ C26_Concat(frags) = block.text
    /\ \A k \in 1..Len(block.spans) :
         \E j \in 1..Len(frags) :
            /\ Len(C26_Concat(SubSeq(frags, 1, j - 1))) = block.spans[k].offset
            /\ C26_Text(frags[j]) =
                  Slice(block.text, block.spans[k].offset,
                        block.spans[k].offset + block.spans[k].length)
            /\ block.spans[k].type = "bold" <=>
                  (frags[j].type = "element" /\ frags[j].node.tag = "b")

\* C26: a paragraph block whose style spans are sorted, non-overlapping and
\* inside the text is cut into fragments from left to right; the fragment of
\* a span is its slice of the text, bold for the bold tag and plain for any
\* other; the fragments together are the whole text, the part after the last
\* span included. This is so for both builders.
C26_FragmentsCoverText ==
    (built.type = "article" /\ built.err = "none") =>
        \A i \in 1..Len(built.blocks) :
            LET block == built.blocks[i]
            IN (block.type = "p" /\ block.key # "none" /\ C26_SpansInOrder(block)) =>
                  /\ C26_CutAtSpans(block, built.frags[i])
                  /\ C26_CutAtSpans(block, built.content[i])


\* C27: a connect() whose _retrieve_user raises sets nothing on the client:
\* the session, the sub-clients and the user are as they were. While no
\* connect() has completed, a client with a failed connect() has no session
\* and no sub-client, and reading any of them gives NotConnectedError.
C27_FailedConnectSetsNothing ==
    /\ [](( /\ ~ever_connected
            /\ \E c \in DOMAIN conn : conn[c].pc \in RetrieveFailures) =>
              /\ session_attr = 0
              /\ \A n \in NamespacedClients : subs[n] = 0
              /\ \A name \in NamespacedClients \cup {"_session"} :
                    Lookup(name) = NotConnectedError)
    /\ [][\A c \in DOMAIN conn :
            (conn[c].pc = "retrieving" /\ conn'[c].pc \in RetrieveFailures) =>
                /\ session_attr' = session_attr
                /\ subs' = subs
                /\ user' = user]_vars

\* C27 happens: a connect() failed, a sub-client was read and gave
\* NotConnectedError, and the next connect() went through.
C27_Witness ==
    /\ \E c, d \in DOMAIN conn :
         /\ c < d
         /\ conn[c].pc \in RetrieveFailures
         /\ conn[d].pc = "done"
         /\ session_attr = conn[d].s
    /\ access.name \in NamespacedClients
    /\ access.result = NotConnectedError


\* The generator has come to its end: exhausted, failed, or closed by the
\* consumer.
C28_Terminated == ipc \in {"done", "failed", "closed"}

=============================================================================
